---- MODULE Spec2Model ----
(***************************************************************************)
(* A model of the storage core of the BusTub teaching database: the B+     *)
(* tree index (b_plus_tree.cpp, its leaf and internal pages, the index     *)
(* iterator) and the page guards of the buffer pool it runs on.            *)
(*                                                                         *)
(* Pages are kept in a sequence indexed by page id (the header page has id *)
(* 0 and holds root_page_id_ alone).  Array indices are 0-based as in the  *)
(* source: At(s, i) is s[i].                                               *)
(***************************************************************************)
EXTENDS Integers, Sequences, FiniteSets, TLC

(***************************************************************************)
(* Bounds of the model.                                                    *)
(***************************************************************************)
MaxKey == 4
MaxVal == 2
MaxPages == 6
MaxOps == 6
MaxDeepKey == 7      \* keys of the tree with three levels
MaxDeepOps == 3      \* operations on the tree with three levels
MaxDeepPages == 8    \* pages of the tree with three levels
NumThreads == 2     \* threads using the buffer pool
MaxGuards == 2      \* guard objects a thread owns
MaxBpmPages == 2    \* pages NewPage hands out
MaxDrops == 2       \* Drop() calls counted per guard
MaxConcOps == 5     \* tree operations started in a concurrent run
MaxBpmOps == 6      \* buffer pool calls in a run
MaxArcPage == 5     \* page ids the replacer is given
MaxDiskReqs == 3    \* disk requests scheduled in a run
MaxDiskPage == 2    \* page ids the disk requests name
MaxBatch == 2       \* requests in one Schedule call
MaxTuple == 2       \* tuple values of the executors' table
MaxHeap == 2        \* rows in the table when an executor is constructed
MaxChild == 2       \* tuples a VALUES child produces
MaxBatchSize == 2   \* batch_size passed to Next
MaxNext == 3        \* Next() calls on one executor
LongRun == 8        \* keys of the long insert and remove runs
MaxJoinVal == 1     \* values of a join input's columns, besides NULL
MaxJoinRows == 2    \* rows of a join input
JoinCols == 2       \* columns of a join input, and the most key columns of a join
MaxInner == 2       \* rows of the inner table of an index join, with keys 1..MaxInner

(***************************************************************************)
(* Program constants.                                                      *)
(***************************************************************************)
INVALID_PAGE_ID == -1
HEADER_PAGE_ID == 0
leaf_max_size_ == 3
internal_max_size_ == 3
num_frames_ == 2
replacer_size_ == 2

Keys == 1..MaxKey
Threads == 1..NumThreads
Values == 1..MaxVal
\* the instantiations of the NumTombs template parameter that are explored
TombCounts == {0, 1, 2}

VARIABLES
  pages,          \* page id -> page contents (tree pages only)
  root_page_id_,  \* the header page's field
  LEAF_PAGE_TOMB_CNT,  \* the tree's NumTombs, fixed at construction
  live,           \* ghost: key -> value of the last successful insert, 0 if removed or never inserted
  hdrUnlatchedWrite,  \* ghost: root_page_id_ was written through an empty ctx.header_page_
  ops,            \* number of public operations performed so far
  latchedUpward,  \* ghost: a latch was requested on a page with a held page below it
  tctx,           \* thread -> its operation in progress and its Context (write_set_, read_set_, header_page_)
  waitsForOwnLatch, \* a call asked for the write latch of a page whose guard it holds itself: it never returns
  next_page_id_,  \* buffer pool: the next page id NewPage hands out
  page_table_,    \* buffer pool: the pages that have a frame
  pin_count_,     \* buffer pool: page id -> pin count of its frame (0 without a frame)
  guards,         \* thread -> guard slot -> the guard object held there
  bpmOps,         \* number of NewPage, ReadPage, WritePage and Drop calls so far
  mru_,           \* replacer: frame ids, front first
  mfu_,           \* replacer: frame ids, front first
  mru_ghost_,     \* replacer: page ids, front first
  mfu_ghost_,     \* replacer: page ids, front first
  alive_map_,     \* replacer: frame id -> FrameStatus (arc_status_ "NONE" when absent)
  ghost_map_,     \* replacer: page id -> arc_status_ of its ghost entry ("NONE" when absent)
  mru_target_size_,  \* replacer: the target size p of mru_
  curr_size_,     \* replacer: what Size() returns
  request_queue_, \* disk scheduler: the channel's queue, oldest first
  batch,          \* disk scheduler: client thread -> the requests its Schedule call has still to Put
  worker,         \* disk scheduler: the request the worker thread took, with its progress
  executed,       \* ghost: the requests run against the DiskManager, in order
  fulfilled,      \* ghost: the requests whose promise was set
  next_request,   \* ghost: the number of requests put in the queue so far
  table_,         \* executors: the table heap, RID -> [tuple, is_deleted_]
  plan_,          \* executors: the plan node the executor was constructed for
  inited,         \* executors: Init() has been called
  child_executor_,  \* executors: the batches the child's Next calls have still to return
  is_finished_,   \* Insert/Update/Delete executor's flag
  table_iter_,    \* SeqScan executor's TableIterator
  tuple_batch,    \* the caller's tuple vector, passed to every Next call
  returned,       \* ghost: what the Next calls returned, in order
  emitted,        \* ghost: the RIDs of the tuples SeqScan put in its batches, in order
  before,         \* ghost: the table heap when Init() was called
  join,           \* NestedLoopJoinExecutor and HashJoinExecutor run on the same plan and children
  index_join      \* NestedIndexJoinExecutor, its inner table and index, and a DeleteExecutor

treeVars == <<pages, root_page_id_, LEAF_PAGE_TOMB_CNT, live, hdrUnlatchedWrite, ops, waitsForOwnLatch,
              latchedUpward, tctx>>
bpmVars == <<next_page_id_, page_table_, pin_count_, guards, bpmOps>>
arcVars == <<mru_, mfu_, mru_ghost_, mfu_ghost_, alive_map_, ghost_map_, mru_target_size_, curr_size_>>
diskVars == <<request_queue_, batch, worker, executed, fulfilled, next_request>>
execVars == <<table_, plan_, inited, child_executor_, is_finished_, table_iter_, tuple_batch,
              returned, emitted, before, join, index_join>>
restVars == <<arcVars, diskVars, execVars>>
vars == <<treeVars, bpmVars, restVars>>

(***************************************************************************)
(* Sequence helpers (0-based array access over 1-based sequences).         *)
(***************************************************************************)
At(s, i) == s[i + 1]

\* s with the element at 0-based index i removed (the shift-left loops)
RemoveAt(s, i) == [j \in 1..(Len(s) - 1) |-> IF j <= i THEN s[j] ELSE s[j + 1]]

\* s with x placed at 0-based index i, the rest shifted right (the shift-right loops)
InsertAt(s, i, x) ==
  [j \in 1..(Len(s) + 1) |-> IF j <= i THEN s[j] ELSE IF j = i + 1 THEN x ELSE s[j - 1]]

SetAt(s, i, x) == [j \in 1..Len(s) |-> IF j = i + 1 THEN x ELSE s[j]]

Max(x, y) == IF x > y THEN x ELSE y

(***************************************************************************)
(* Page contents.                                                          *)
(***************************************************************************)
\* BPlusTreeLeafPage::Init(leaf_max_size_)
\* keys and vals are the slots [0, GetSize()) of the page's arrays; junk is what
\* key_array_ and page_id_array_ of an internal page hold from slot GetSize()
\* on, up to the last slot that is not zero (a page starts zeroed); max is
\* max_size_; hi holds the high words of the slots of key_array_ of an internal
\* page (a key of the tree is below 2^31: its high word is 0), as far as
\* they were written
LeafInit == [leaf |-> TRUE, keys |-> <<>>, vals |-> <<>>, next |-> INVALID_PAGE_ID, tombs |-> <<>>,
             junk |-> <<>>, max |-> leaf_max_size_, hi |-> <<>>]

\* BPlusTreeInternalPage::Init(internal_max_size_) (a fresh page is zeroed: slot 0
\* of key_array_ reads 0)
InternalInit == [leaf |-> FALSE, keys |-> <<>>, vals |-> <<>>, next |-> INVALID_PAGE_ID,
                 tombs |-> <<>>, junk |-> <<>>, max |-> internal_max_size_, hi |-> <<>>]

GetSize(p) == Len(p.keys)
GetMaxSize(p) == p.max
GetMinSize(p) == (GetMaxSize(p) + 1) \div 2

(***************************************************************************)
(* Leaf page (b_plus_tree_leaf_page.cpp).                                  *)
(***************************************************************************)
IsTombstone(p, index) == \E i \in 1..Len(p.tombs) : p.tombs[i] = index

\* HandleTombstoneOverflow evicting the newest tombstone
HandleTombstoneOverflow_Newest(p) ==
  LET victim_idx == p.tombs[Len(p.tombs)] IN
  [page |-> [p EXCEPT !.keys = RemoveAt(p.keys, victim_idx),
                      !.vals = RemoveAt(p.vals, victim_idx),
                      !.tombs = [i \in 1..(Len(p.tombs) - 1) |->
                                   IF p.tombs[i] > victim_idx
                                     THEN p.tombs[i] - 1 ELSE p.tombs[i]]],
   victim_idx |-> victim_idx]

\* Evicts the oldest tombstone: its key is deleted physically.
HandleTombstoneOverflow(p) ==
  LET victim_idx == p.tombs[1] IN
  [page |-> [p EXCEPT !.keys = RemoveAt(p.keys, victim_idx),
                      !.vals = RemoveAt(p.vals, victim_idx),
                      !.tombs = [i \in 1..(Len(p.tombs) - 1) |->
                                   IF p.tombs[i + 1] > victim_idx
                                     THEN p.tombs[i + 1] - 1 ELSE p.tombs[i + 1]]],
   victim_idx |-> victim_idx]

\* AddTombstone without the overflow handling
AddTombstone_NoOverflow(p, key_idx) ==
  IF LEAF_PAGE_TOMB_CNT = 0 THEN p ELSE [p EXCEPT !.tombs = Append(@, key_idx)]

AddTombstone(p, key_idx) ==
  IF LEAF_PAGE_TOMB_CNT = 0 THEN p
  ELSE IF Len(p.tombs) = LEAF_PAGE_TOMB_CNT
    THEN LET r == HandleTombstoneOverflow(p)
             k == IF key_idx > r.victim_idx THEN key_idx - 1 ELSE key_idx
         IN [r.page EXCEPT !.tombs = Append(@, k)]
    ELSE [p EXCEPT !.tombs = Append(@, key_idx)]

RemoveTombstone(p, key_idx) ==
  LET hits == {i \in 1..Len(p.tombs) : p.tombs[i] = key_idx} IN
  IF hits = {} THEN p
  ELSE LET i == CHOOSE h \in hits : \A g \in hits : h <= g
       IN [p EXCEPT !.tombs = RemoveAt(p.tombs, i - 1)]

\* ShiftTombstones leaving the recorded indices as they are
ShiftTombstones_Unshifted(p, start_idx, delta) == p

ShiftTombstones(p, start_idx, delta) ==
  [p EXCEPT !.tombs = [i \in 1..Len(p.tombs) |->
                         IF p.tombs[i] >= start_idx THEN p.tombs[i] + delta ELSE p.tombs[i]]]

\* The binary search of Lookup and of Insert: the index of key, or the place to insert it.
RECURSIVE BinarySearch(_, _, _, _)
BinarySearch(keys, key, l, r) ==
  IF l > r THEN [found |-> FALSE, pos |-> l]
  ELSE LET mid == l + ((r - l) \div 2) IN
       IF At(keys, mid) = key THEN [found |-> TRUE, pos |-> mid]
       ELSE IF At(keys, mid) < key THEN BinarySearch(keys, key, mid + 1, r)
       ELSE BinarySearch(keys, key, l, mid - 1)

LeafLookup(p, key) ==
  LET s == BinarySearch(p.keys, key, 0, GetSize(p) - 1) IN
  IF s.found THEN s.pos ELSE -1

LeafInsert(p, key, value) ==
  LET s == BinarySearch(p.keys, key, 0, GetSize(p) - 1) IN
  IF s.found
    THEN IF IsTombstone(p, s.pos)
           THEN [page |-> [RemoveTombstone(p, s.pos) EXCEPT !.vals = SetAt(@, s.pos, value)],
                 ok |-> TRUE]
           ELSE [page |-> p, ok |-> FALSE]
  ELSE IF GetSize(p) >= GetMaxSize(p) THEN [page |-> p, ok |-> FALSE]
  ELSE [page |-> ShiftTombstones([p EXCEPT !.keys = InsertAt(@, s.pos, key),
                                           !.vals = InsertAt(@, s.pos, value)], s.pos, 1),
        ok |-> TRUE]

\* LeafRemove reporting false for a key that is already tombstoned
LeafRemove_TombstonedFalse(p, key) ==
  LET target == LeafLookup(p, key) IN
  IF target = -1 \/ IsTombstone(p, target) THEN [page |-> p, ok |-> FALSE]
  ELSE IF LEAF_PAGE_TOMB_CNT = 0
    THEN [page |-> ShiftTombstones([p EXCEPT !.keys = RemoveAt(@, target),
                                             !.vals = RemoveAt(@, target)], target, -1),
          ok |-> TRUE]
  ELSE [page |-> AddTombstone(p, target), ok |-> TRUE]

LeafRemove(p, key) ==
  LET target == LeafLookup(p, key) IN
  IF target = -1 THEN [page |-> p, ok |-> FALSE]
  ELSE IF IsTombstone(p, target) THEN [page |-> p, ok |-> TRUE]
  ELSE IF LEAF_PAGE_TOMB_CNT = 0
    THEN [page |-> ShiftTombstones([p EXCEPT !.keys = RemoveAt(@, target),
                                             !.vals = RemoveAt(@, target)], target, -1),
          ok |-> TRUE]
  ELSE [page |-> AddTombstone(p, target), ok |-> TRUE]

\* AddTombstone for each index of idxs in turn
RECURSIVE AddTombstones(_, _)
AddTombstones(p, idxs) ==
  IF idxs = <<>> THEN p ELSE AddTombstones(AddTombstone(p, Head(idxs)), Tail(idxs))

LeafMoveHalfTo(src, recipient) ==
  LET total == GetSize(src)
      keep == total \div 2
      start_idx == keep
      Stays(t) == t < start_idx
      Moves(t) == ~(t < start_idx)
      moved == SelectSeq(src.tombs, Moves)
      rec0 == [recipient EXCEPT !.leaf = TRUE,
                                !.keys = SubSeq(src.keys, keep + 1, total),
                                !.vals = SubSeq(src.vals, keep + 1, total),
                                !.next = src.next]
  IN [src |-> [src EXCEPT !.keys = SubSeq(src.keys, 1, keep),
                          !.vals = SubSeq(src.vals, 1, keep),
                          !.next = INVALID_PAGE_ID,
                          !.tombs = SelectSeq(src.tombs, Stays)],
      recipient |-> AddTombstones(rec0, [i \in 1..Len(moved) |-> moved[i] - start_idx])]

\* the tombstone loop of MoveAllTo: start_offset follows the recipient's physical deletions
RECURSIVE MergeTombstones(_, _, _)
MergeTombstones(recipient, tombs, start_offset) ==
  IF tombs = <<>> THEN recipient
  ELSE LET r == AddTombstone(recipient, Head(tombs) + start_offset) IN
       MergeTombstones(r, Tail(tombs),
                       IF GetSize(r) < GetSize(recipient) THEN start_offset - 1 ELSE start_offset)

LeafMoveAllTo(src, recipient) ==
  LET rec0 == [recipient EXCEPT !.keys = recipient.keys \o src.keys,
                                !.vals = recipient.vals \o src.vals,
                                !.next = src.next]
  IN [src |-> [src EXCEPT !.keys = <<>>, !.vals = <<>>, !.tombs = <<>>],
      recipient |-> MergeTombstones(rec0, src.tombs, GetSize(recipient))]

LeafMoveFirstToEndOf(src, recipient) ==
  LET is_tomb == IsTombstone(src, 0)
      s1 == [src EXCEPT !.keys = RemoveAt(@, 0), !.vals = RemoveAt(@, 0)]
      s2 == IF is_tomb THEN RemoveTombstone(s1, 0) ELSE s1
      dest_idx == GetSize(recipient)
      r1 == [recipient EXCEPT !.keys = Append(@, At(src.keys, 0)),
                              !.vals = Append(@, At(src.vals, 0))]
  IN [src |-> ShiftTombstones(s2, 0, -1),
      recipient |-> IF is_tomb THEN AddTombstone(r1, dest_idx) ELSE r1]

LeafMoveLastToFrontOf(src, recipient) ==
  LET src_idx == GetSize(src) - 1
      is_tomb == IsTombstone(src, src_idx)
      s1 == [src EXCEPT !.keys = SubSeq(@, 1, src_idx), !.vals = SubSeq(@, 1, src_idx)]
      r1 == ShiftTombstones([recipient EXCEPT !.keys = InsertAt(@, 0, At(src.keys, src_idx)),
                                              !.vals = InsertAt(@, 0, At(src.vals, src_idx))],
                            0, 1)
  IN [src |-> IF is_tomb THEN RemoveTombstone(s1, src_idx) ELSE s1,
      recipient |-> IF is_tomb THEN AddTombstone(r1, 0) ELSE r1]

(***************************************************************************)
(* Internal page (b_plus_tree_internal_page.cpp).  keys[0] is the unused   *)
(* slot; vals are child page ids.                                          *)
(***************************************************************************)
\* a slot of key_array_ / page_id_array_ that was never written
ZeroSlot == [key |-> 0, val |-> 0]

\* the two arrays of page p, slot by slot, as far as they were written
Slots(p) == [i \in 1..Len(p.keys) |-> [key |-> p.keys[i], val |-> p.vals[i]]] \o p.junk

\* slot i of the arrays raw; a slot that was never written reads zero
SlotAt(raw, i) == IF 0 <= i /\ i < Len(raw) THEN raw[i + 1] ELSE ZeroSlot

\* raw after slot i >= 0 was written
WriteSlot(raw, i, slot) ==
  IF i < 0 THEN raw
  ELSE [j \in 1..Max(Len(raw), i + 1) |-> IF j = i + 1 THEN slot ELSE SlotAt(raw, j - 1)]

\* raw without the zero slots at its end
RECURSIVE Written(_)
Written(raw) ==
  IF raw = <<>> THEN <<>>
  ELSE IF raw[Len(raw)] # ZeroSlot THEN raw
  ELSE Written(SubSeq(raw, 1, Len(raw) - 1))

\* page p with the arrays raw and SetSize(size)
WithSlots(p, raw, size) ==
  [p EXCEPT !.keys = [i \in 1..size |-> SlotAt(raw, i - 1).key],
            !.vals = [i \in 1..size |-> SlotAt(raw, i - 1).val],
            !.junk = Written([i \in 1..Max(Len(raw) - size, 0) |-> raw[size + i]])]

\* the slots of key_array_ and of page_id_array_: the two arrays fill the
\* page, (BUSTUB_PAGE_SIZE - 12) / 12 slots each with pages of 8192 bytes, far
\* more than the max_size_ entries a page of the tree uses.  key_array_ (8
\* bytes a slot) follows the header words page_type_, size_, max_size_, and
\* page_id_array_ (4 bytes a slot) follows key_array_
INTERNAL_PAGE_SLOT_CNT == 681

\* the high word of key_array_[i]
HiAt(p, i) == IF 0 <= i /\ i < Len(p.hi) THEN p.hi[i + 1] ELSE 0

\* hi with the high word of slot i set to word
WriteHi(hi, i, word) ==
  [j \in 1..Max(Len(hi), i + 1) |->
     IF j = i + 1 THEN word ELSE IF j <= Len(hi) THEN hi[j] ELSE 0]

\* key_array_[index].  key_array_[-1] is outside the array: the eight bytes in
\* front of key_array_ are the page's size_ (low word) and max_size_ (high word).
\* The key read there is written as the pair of the two words: it is
\* size_ + max_size_ * 2^32, a value no key of the tree equals.  -1 is what
\* ValueIndex returns for a child the page does not hold.  A slot whose words
\* were written through page_id_array_ reads as the pair of its words as
\* well, unless they make a key of the tree
KeyAt(p, index) ==
  IF index < 0 THEN <<GetSize(p), GetMaxSize(p)>>
  ELSE IF p.hi = <<>> THEN SlotAt(Slots(p), index).key
  ELSE LET lo == SlotAt(Slots(p), index).key IN
       IF HiAt(p, index) = 0 /\ lo >= 0 THEN lo ELSE <<lo, HiAt(p, index)>>

\* page_id_array_[index].  page_id_array_[-j] is outside the array: it is the
\* word j words in front of it, word 2 * INTERNAL_PAGE_SLOT_CNT - j of
\* key_array_ (the low word of a slot where that is even, the high word where it
\* is odd), and in front of key_array_ max_size_, size_ and page_type_
\* (LEAF_PAGE is 1, INTERNAL_PAGE is 2).  What lies in front of the page is
\* not part of it and reads as zero
ValueAt(p, index) ==
  IF index >= 0 THEN SlotAt(Slots(p), index).val
  ELSE LET w == 2 * INTERNAL_PAGE_SLOT_CNT + index IN
       IF w >= 0
         THEN IF w % 2 = 0 THEN SlotAt(Slots(p), w \div 2).key ELSE HiAt(p, w \div 2)
       ELSE IF w = -1 THEN GetMaxSize(p)
       ELSE IF w = -2 THEN GetSize(p)
       ELSE IF w = -3 THEN (IF p.leaf THEN 1 ELSE 2)
       ELSE 0

\* key_array_[index] = key.  The write to key_array_[-1] lands on size_ and
\* max_size_: a key of the tree (below 2^32) becomes size_ and leaves 0 in
\* max_size_, and the slots up to the new size_ become the page's entries
SetKeyAt(p, index, key) ==
  IF index < 0 THEN [WithSlots(p, Slots(p), key) EXCEPT !.max = 0]
  ELSE LET q == WithSlots(p, WriteSlot(Slots(p), index,
                                         [key |-> key, val |-> ValueAt(p, index)]),
                           GetSize(p))
       IN IF p.hi = <<>> THEN q ELSE [q EXCEPT !.hi = WriteHi(@, index, 0)]

\* page_id_array_[index] = value.  The write to page_id_array_[-j] lands on the
\* word ValueAt reads there: a word of key_array_, max_size_, size_ (the slots
\* up to the new size_ become the page's entries) or page_type_; a write in
\* front of the page leaves the page as it is
SetValueAt(p, index, value) ==
  IF index >= 0
    THEN WithSlots(p, WriteSlot(Slots(p), index,
                                [key |-> SlotAt(Slots(p), index).key, val |-> value]),
                   GetSize(p))
  ELSE LET w == 2 * INTERNAL_PAGE_SLOT_CNT + index
           i == w \div 2
       IN IF w >= 0
            THEN IF w % 2 = 0
                   THEN [WithSlots(p, WriteSlot(Slots(p), i,
                                                [key |-> value, val |-> SlotAt(Slots(p), i).val]),
                                   GetSize(p))
                           EXCEPT !.hi = WriteHi(@, i, HiAt(p, i))]
                   ELSE [p EXCEPT !.hi = WriteHi(@, i, value)]
          ELSE IF w = -1 THEN [p EXCEPT !.max = value]
          ELSE IF w = -2 THEN WithSlots(p, Slots(p), value)
          ELSE IF w = -3 THEN [p EXCEPT !.leaf = (value = 1)]
          ELSE p

ValueIndex(p, value) ==
  LET hits == {i \in 0..(GetSize(p) - 1) : At(p.vals, i) = value} IN
  IF hits = {} THEN -1 ELSE CHOOSE h \in hits : \A g \in hits : h <= g

RECURSIVE InternalSearch(_, _, _, _)
InternalSearch(keys, key, l, r) ==
  IF l > r THEN l
  ELSE LET mid == l + ((r - l) \div 2) IN
       IF At(keys, mid) <= key THEN InternalSearch(keys, key, mid + 1, r)
       ELSE InternalSearch(keys, key, l, mid - 1)

InternalLookup(p, key) == ValueAt(p, InternalSearch(p.keys, key, 1, GetSize(p) - 1) - 1)

\* key_array_[0] of the fresh (zeroed) page is left as it is
PopulateNewRoot(p, old_value, new_key, new_value) ==
  LET raw0 == WriteSlot(Slots(p), 0, [key |-> KeyAt(p, 0), val |-> old_value])
  IN WithSlots(p, WriteSlot(raw0, 1, [key |-> new_key, val |-> new_value]), 2)

InsertNodeAfter(p, old_value, new_key, new_value) ==
  LET idx == ValueIndex(p, old_value)
      raw == Slots(p)
      size == GetSize(p)
  IN WithSlots(p, [j \in 1..Max(Len(raw), size + 1) |->
                     IF j - 1 <= idx THEN raw[j]
                     ELSE IF j - 1 = idx + 1 THEN [key |-> new_key, val |-> new_value]
                     ELSE IF j - 1 <= size THEN raw[j - 1]
                     ELSE raw[j]],
               size + 1)

\* the moved entries stay in the arrays of src, beyond its new size
InternalMoveHalfTo(src, recipient) ==
  LET total == GetSize(src)
      keep == (total + 1) \div 2
      move_count == total - keep
      raw == Slots(recipient)
  IN [src |-> WithSlots(src, Slots(src), keep),
      recipient |-> WithSlots([recipient EXCEPT !.max = GetMaxSize(src)],
                              [j \in 1..Max(Len(raw), move_count) |->
                                 IF j <= move_count THEN SlotAt(Slots(src), keep + j - 1)
                                 ELSE raw[j]],
                              move_count)]

\* the copy loop of MoveAllTo: the first GetSize() slots of from go to the end
\* of recipient, and this page is left with size 0 and its arrays as they are
MoveSlotsTo(src, from, recipient) ==
  LET start == GetSize(recipient)
      move_count == GetSize(src)
      raw == Slots(recipient)
  IN [src |-> WithSlots(src, from, 0),
      recipient |-> WithSlots(recipient,
                              [j \in 1..Max(Len(raw), start + move_count) |->
                                 IF start < j /\ j <= start + move_count
                                   THEN SlotAt(from, j - 1 - start)
                                   ELSE raw[j]],
                              start + move_count)]

\* MoveAllTo that leaves the moved page's first key as it is
InternalMoveAllTo_KeepsFirstKey(src, recipient, middle_key) ==
  MoveSlotsTo(src, Slots(src), recipient)

InternalMoveAllTo(src, recipient, middle_key) ==
  MoveSlotsTo(src, Slots(SetKeyAt(src, 0, middle_key)), recipient)

InternalMoveFirstToEndOf(src, recipient, middle_key) ==
  LET dest_idx == GetSize(recipient)
      raw == Slots(src)
      size == GetSize(src)
  IN [src |-> WithSlots(src, [j \in 1..Len(raw) |-> IF j <= size - 1 THEN raw[j + 1] ELSE raw[j]],
                        size - 1),
      recipient |-> WithSlots(recipient,
                              WriteSlot(Slots(recipient), dest_idx,
                                        [key |-> middle_key, val |-> ValueAt(src, 0)]),
                              dest_idx + 1)]

InternalMoveLastToFrontOf(src, recipient, middle_key) ==
  LET n == GetSize(src)
      size == GetSize(recipient)
      raw == Slots(recipient)
      shifted == [j \in 1..Max(Len(raw), size + 1) |->
                    IF 1 < j /\ j <= size + 1 THEN raw[j - 1] ELSE SlotAt(raw, j - 1)]
      raw1 == WriteSlot(shifted, 1, [key |-> middle_key, val |-> SlotAt(shifted, 1).val])
      raw2 == WriteSlot(raw1, 0, [key |-> SlotAt(raw1, 0).key, val |-> ValueAt(src, n - 1)])
  IN [src |-> WithSlots(src, Slots(src), n - 1),
      recipient |-> WithSlots(recipient, raw2, size + 1)]

(***************************************************************************)
(* The tree (b_plus_tree.cpp).  A tree state st is                         *)
(*   [pages, root, unl]: the pages, the header's root_page_id_, and        *)
(*   whether root_page_id_ was written through an empty ctx.header_page_.  *)
(* A context is ws (write_set_ or read_set_, page ids front to back) and   *)
(* hdr (ctx.header_page_ has a value).                                     *)
(***************************************************************************)
Front(s) == SubSeq(s, 1, Len(s) - 1)
Back(s) == s[Len(s)]

\* BufferPoolManager::NewPage as the tree sees it: the next page id
\* (st.avail is the number of NewPage calls that can still succeed, -1 when the
\* pool never runs out; st.nomem records that a call returned INVALID_PAGE_ID)
NewPageId(st) == IF st.avail = 0 THEN INVALID_PAGE_ID ELSE Len(st.pages) + 1

\* the pool after a NewPage call that succeeded
Taken(avail) == IF avail > 0 THEN avail - 1 ELSE avail

\* a NewPage call returned INVALID_PAGE_ID
NoPage(st) == [st EXCEPT !.nomem = TRUE]

IsSafeInsert(page) == GetSize(page) < GetMaxSize(page)

IsSafeRemove(page) ==
  LET m == GetMinSize(page)
      min_size == IF ~page.leaf THEN (IF m < 2 THEN 2 ELSE m) ELSE m
  IN GetSize(page) > min_size

\* One iteration of the while loop of FindLeafPage, once the guard on next_id
\* is held: ws is read_set_ (SEARCH) or write_set_, hdr tells whether
\* ctx.header_page_ holds the header's write guard.
CrabStep(pgs, next_id, key, op, ws, hdr, leftMost) ==
  LET page == pgs[next_id]
      ws1 == Append(ws, next_id)
  IN IF page.leaf THEN [leaf |-> TRUE, ws |-> ws1, hdr |-> hdr, next |-> next_id]
     ELSE LET child == IF leftMost THEN ValueAt(page, 0) ELSE InternalLookup(page, key) IN
          IF op = "SEARCH"
            THEN [leaf |-> FALSE, ws |-> IF Len(ws1) > 1 THEN Tail(ws1) ELSE ws1,
                  hdr |-> hdr, next |-> child]
            ELSE LET safe == IF op = "INSERT" THEN IsSafeInsert(page) ELSE IsSafeRemove(page) IN
                 IF safe THEN [leaf |-> FALSE, ws |-> <<next_id>>, hdr |-> FALSE, next |-> child]
                 ELSE [leaf |-> FALSE, ws |-> ws1, hdr |-> hdr, next |-> child]

\* the descent of FindLeafPage from page next_id
RECURSIVE Traverse(_, _, _, _, _, _, _)
Traverse(pgs, next_id, key, op, ws, hdr, leftMost) ==
  LET s == CrabStep(pgs, next_id, key, op, ws, hdr, leftMost) IN
  IF s.leaf THEN [ws |-> s.ws, hdr |-> s.hdr]
  ELSE Traverse(pgs, s.next, key, op, s.ws, s.hdr, leftMost)

\* ws = <<>> stands for the nullptr result (empty tree)
FindLeafPage_DropsHeader(st, key, op, hdr, leftMost) ==
  IF st.root = INVALID_PAGE_ID THEN [ws |-> <<>>, hdr |-> FALSE]
  ELSE Traverse(st.pages, st.root, key, op, <<>>, FALSE, leftMost)

FindLeafPage(st, key, op, hdr, leftMost) ==
  IF st.root = INVALID_PAGE_ID THEN [ws |-> <<>>, hdr |-> hdr]
  ELSE Traverse(st.pages, st.root, key, op, <<>>, hdr, leftMost)

GetValue(st, key) ==
  LET ctx == FindLeafPage(st, key, "SEARCH", FALSE, FALSE) IN
  IF ctx.ws = <<>> THEN [found |-> FALSE, value |-> 0]
  ELSE LET leaf == st.pages[Back(ctx.ws)]
           index == LeafLookup(leaf, key)
       IN IF index # -1 /\ ~IsTombstone(leaf, index)
            THEN [found |-> TRUE, value |-> At(leaf.vals, index)]
            ELSE [found |-> FALSE, value |-> 0]

\* header->root_page_id_ = id through ctx.header_page_
SetRoot(st, hdr, id) == [st EXCEPT !.root = id, !.unl = @ \/ ~hdr]

RECURSIVE InsertIntoParent(_, _, _, _, _, _)
InsertIntoParent(st, key, value, old_value, ws, hdr) ==
  LET ws1 == Front(ws) IN
  IF ws1 = <<>>
    THEN LET new_root_id == NewPageId(st)
             new_root == PopulateNewRoot(InternalInit, old_value, key, value)
         IN IF new_root_id = INVALID_PAGE_ID THEN NoPage(st)
            ELSE SetRoot([st EXCEPT !.pages = Append(@, new_root), !.avail = Taken(@)],
                         hdr, new_root_id)
    ELSE LET p_id == Back(ws1)
             ws2 == Front(ws1)
             p == st.pages[p_id]
         IN IF GetSize(p) = GetMaxSize(p)
              THEN LET new_p_id == NewPageId(st)
                       h == InternalMoveHalfTo(p, InternalInit)
                       inLeft == ValueIndex(h.src, old_value) # -1
                       p2 == IF inLeft THEN InsertNodeAfter(h.src, old_value, key, value)
                                       ELSE h.src
                       new_p == IF inLeft THEN h.recipient
                                          ELSE InsertNodeAfter(h.recipient, old_value, key, value)
                       up_key == KeyAt(new_p, 0)
                       st2 == [st EXCEPT !.pages = Append([@ EXCEPT ![p_id] = p2], new_p),
                                         !.avail = Taken(@)]
                   IN IF new_p_id = INVALID_PAGE_ID THEN NoPage(st)
                      ELSE InsertIntoParent(st2, up_key, new_p_id, p_id, Append(ws2, p_id), hdr)
              ELSE [st EXCEPT !.pages[p_id] = InsertNodeAfter(p, old_value, key, value)]

\* The pessimistic path of Insert on a non-empty tree, with the write set ctx in hand.
InsertPessimistic(st, key, value, ctx) ==
  LET leaf_id == Back(ctx.ws)
      leaf == st.pages[leaf_id]
  IN IF GetSize(leaf) = GetMaxSize(leaf)
       THEN LET new_leaf_id == NewPageId(st)
                h == LeafMoveHalfTo(leaf, LeafInit)
                leaf1 == [h.src EXCEPT !.next = new_leaf_id]
                right == key >= At(h.recipient.keys, 0)
                ins == IF right THEN LeafInsert(h.recipient, key, value)
                                ELSE LeafInsert(leaf1, key, value)
                leaf2 == IF right THEN leaf1 ELSE ins.page
                new_leaf == IF right THEN ins.page ELSE h.recipient
                st2 == [st EXCEPT !.pages = Append([@ EXCEPT ![leaf_id] = leaf2], new_leaf),
                                  !.avail = Taken(@)]
            IN IF new_leaf_id = INVALID_PAGE_ID THEN [st |-> NoPage(st), ret |-> FALSE]
               ELSE IF ~ins.ok THEN [st |-> st2, ret |-> FALSE]
               ELSE [st |-> InsertIntoParent(st2, At(new_leaf.keys, 0), new_leaf_id, leaf_id,
                                             ctx.ws, ctx.hdr),
                     ret |-> TRUE]
       ELSE LET ins == LeafInsert(leaf, key, value) IN
            [st |-> [st EXCEPT !.pages[leaf_id] = ins.page], ret |-> ins.ok]

\* The empty-tree branch of the pessimistic path.
StartNewTree(st, key, value, hdr) ==
  LET new_page_id == NewPageId(st)
      ins == LeafInsert(LeafInit, key, value)
  IN IF new_page_id = INVALID_PAGE_ID THEN [st |-> NoPage(st), ret |-> FALSE]
     ELSE [st |-> SetRoot([st EXCEPT !.pages = Append(@, ins.page), !.avail = Taken(@)],
                          hdr, new_page_id),
           ret |-> TRUE]

Insert(st, key, value) ==
  LET octx == FindLeafPage(st, key, "SEARCH", FALSE, FALSE)
      optimistic == octx.ws # <<>> /\ IsSafeInsert(st.pages[Back(octx.ws)])
  IN IF optimistic
       THEN LET leaf_id == Back(octx.ws)
                ins == LeafInsert(st.pages[leaf_id], key, value)
            IN [st |-> [st EXCEPT !.pages[leaf_id] = ins.page], ret |-> ins.ok]
       ELSE LET ctx == FindLeafPage(st, key, "INSERT", TRUE, FALSE) IN
            IF ctx.ws = <<>> THEN StartNewTree(st, key, value, ctx.hdr)
            ELSE InsertPessimistic(st, key, value, ctx)

\* the page AsMut shows for page_id to code that holds a page like `like`:
\* page 0 is the header page, which has zero where a tree page keeps size_,
\* max_size_ and next_page_id_
PageAt(pgs, page_id, like) ==
  IF page_id \in 1..Len(pgs) THEN pgs[page_id]
  ELSE [(IF like.leaf THEN LeafInit ELSE InternalInit) EXCEPT !.next = HEADER_PAGE_ID, !.max = 0]

\* the pages after the page under page_id was changed to p (what a tree page's
\* code writes into the header page lies beyond root_page_id_)
PutPage(pgs, page_id, p) ==
  IF page_id \in 1..Len(pgs) THEN [pgs EXCEPT ![page_id] = p] ELSE pgs

\* Redistribute (borrow) between node and its sibling under parent; idx is node's child index.
Redistribute(st, parent_id, node_id, sibling_id, idx) ==
  LET parent == st.pages[parent_id]
      node == st.pages[node_id]
      sibling == PageAt(st.pages, sibling_id, node)
      m == IF idx = 0
             THEN IF node.leaf THEN LeafMoveFirstToEndOf(sibling, node)
                  ELSE InternalMoveFirstToEndOf(sibling, node, KeyAt(parent, 1))
             ELSE IF node.leaf THEN LeafMoveLastToFrontOf(sibling, node)
                  ELSE InternalMoveLastToFrontOf(sibling, node, KeyAt(parent, idx))
      up_key == IF idx = 0
                  THEN IF node.leaf THEN At(m.src.keys, 0) ELSE KeyAt(sibling, 1)
                  ELSE IF node.leaf THEN At(m.recipient.keys, 0)
                       ELSE KeyAt(sibling, GetSize(sibling) - 1)
      parent1 == SetKeyAt(parent, IF idx = 0 THEN 1 ELSE idx, up_key)
  IN [st EXCEPT !.pages = PutPage(PutPage([@ EXCEPT ![node_id] = m.recipient],
                                          sibling_id, m.src),
                                  parent_id, parent1)]

\* the "Update Parent" loop of a merge and ChangeSizeBy(-1)
RemoveFromParent(parent, remove_idx) ==
  LET raw == Slots(parent)
      size == GetSize(parent)
  IN WithSlots(parent,
               [j \in 1..Len(raw) |->
                  IF remove_idx <= j - 1 /\ j - 1 < size - 1 THEN raw[j + 1] ELSE raw[j]],
               Max(size - 1, 0))

\* Merge node with its sibling into the left one and delete the right one from parent.
Merge(st, parent_id, node_id, sibling_id, idx) ==
  LET parent == st.pages[parent_id]
      node == st.pages[node_id]
      left_id == IF idx = 0 THEN node_id ELSE sibling_id
      right_id == IF idx = 0 THEN sibling_id ELSE node_id
      remove_idx == IF idx = 0 THEN 1 ELSE idx
      l == PageAt(st.pages, left_id, node)
      r == PageAt(st.pages, right_id, node)
      m == IF l.leaf THEN LeafMoveAllTo(r, l)
                     ELSE InternalMoveAllTo(r, l, KeyAt(parent, remove_idx))
  IN [st EXCEPT !.pages = PutPage(PutPage(PutPage(@, left_id, m.recipient), right_id, m.src),
                                  parent_id, RemoveFromParent(parent, remove_idx))]

\* AdjustRoot that leaves an internal root with one child in place
AdjustRoot_KeepsInternalRoot(st, ws, hdr) ==
  LET root_p == st.pages[Back(ws)] IN
  IF root_p.leaf /\ GetSize(root_p) = 0 THEN SetRoot(st, hdr, INVALID_PAGE_ID) ELSE st

\* the branch of the underflow loop taken when write_set_ holds one page
AdjustRoot(st, ws, hdr) ==
  LET root_p == st.pages[Back(ws)] IN
  IF root_p.leaf
    THEN IF GetSize(root_p) = 0 THEN SetRoot(st, hdr, INVALID_PAGE_ID) ELSE st
    ELSE IF GetSize(root_p) = 1 THEN SetRoot(st, hdr, ValueAt(root_p, 0)) ELSE st

\* parent->ValueAt(sibling_idx) is not checked against the parent's size: for
\* a parent with one child it is what slot 1 of page_id_array_ still holds
SiblingOf(parent, node_id) ==
  LET idx == ValueIndex(parent, node_id)
      sibling_idx == IF idx = 0 THEN 1 ELSE idx - 1
  IN [idx |-> idx, sibling_idx |-> sibling_idx, sibling_id |-> ValueAt(parent, sibling_idx)]

IsMerge(node, sibling) ==
  IF node.leaf THEN GetSize(node) + GetSize(sibling) <= GetMaxSize(node)
  ELSE GetSize(node) + GetSize(sibling) + 1 <= GetMaxSize(node)

\* the ids of the pages below page id (id excluded)
RECURSIVE Descendants(_, _, _)
Descendants(pgs, id, fuel) ==
  IF fuel = 0 \/ id < 1 \/ id > Len(pgs) THEN {}
  ELSE IF pgs[id].leaf THEN {}
  ELSE UNION {{pgs[id].vals[i]} \cup Descendants(pgs, pgs[id].vals[i], fuel - 1) :
                i \in 1..GetSize(pgs[id])}

\* bpm_->WritePage(sibling_id) is called inside the loop, with the guards of
\* held in hand: lat collects the pages asked for, up tells whether one of
\* them has a held page below it (every tree page is below the header page)
LatchSibling(st, sibling_id, held) ==
  [st EXCEPT !.lat = @ \cup {sibling_id},
             !.up = @ \/ (sibling_id = HEADER_PAGE_ID /\ held # {})
                      \/ (held \cap Descendants(st.pages, sibling_id, Len(st.pages)) # {})]

\* the same, noting in sib the child positions of the page already latched
\* and of its sibling, the parent's size, and whether the parent is in write_set_
LatchSiblingOf(st, parent_id, sb, held) ==
  [LatchSibling(st, sb.sibling_id, held) EXCEPT
     !.sib = @ \cup {[parent_held |-> parent_id \in held, idx |-> sb.idx,
                       sibling_idx |-> sb.sibling_idx,
                       size |-> GetSize(st.pages[parent_id])]}]

\* the page guards Remove holds inside the loop: ctx.header_page_, write_set_
\* and node_guard (ws still has the node at its back)
HeldInLoop(ws, hdr) == {ws[i] : i \in 1..Len(ws)} \cup (IF hdr THEN {HEADER_PAGE_ID} ELSE {})

\* the loop up to its next WritePage: the sibling it asks for, or none when
\* the loop ends at the root or at a safe node
LoopRequest(st, ws) ==
  IF Len(ws) = 1 \/ IsSafeRemove(st.pages[Back(ws)]) THEN [none |-> TRUE]
  ELSE [none |-> FALSE, parent_id |-> Back(Front(ws)),
        sb |-> SiblingOf(st.pages[Back(Front(ws))], Back(ws))]

\* the call of WritePage(sibling_id) in a pass of the loop that makes one
Requested(st, ws) ==
  LET rq == LoopRequest(st, ws) IN
  LatchSiblingOf(st, rq.parent_id, rq.sb, {ws[i] : i \in 1..Len(ws)})

\* the loop body after WritePage(sibling_id), once that latch is granted:
\* again tells whether the loop goes on with the parent
LoopBody(st, ws, hdr) ==
  LET node_id == Back(ws)
      rq == LoopRequest(st, ws)
      sibling == PageAt(st.pages, rq.sb.sibling_id, st.pages[node_id])
  IN IF ~IsMerge(st.pages[node_id], sibling)
       THEN [st |-> Redistribute(st, rq.parent_id, node_id, rq.sb.sibling_id, rq.sb.idx),
             again |-> FALSE]
       ELSE [st |-> Merge(st, rq.parent_id, node_id, rq.sb.sibling_id, rq.sb.idx),
             again |-> TRUE]

\* the while (true) loop of Remove.  WritePage on a page whose guard this
\* call holds itself never returns (own): the call stays inside WritePage
\* with the tree as the loop left it.
RECURSIVE UnderflowLoop(_, _, _)
UnderflowLoop(st, ws, hdr) ==
  LET rq == LoopRequest(st, ws) IN
  IF Len(ws) = 1 THEN AdjustRoot(st, ws, hdr)
  ELSE IF rq.none THEN st
  ELSE IF rq.sb.sibling_id \in HeldInLoop(ws, hdr)
    THEN [Requested(st, ws) EXCEPT !.own = TRUE]
  ELSE LET b == LoopBody(Requested(st, ws), ws, hdr) IN
       IF b.again THEN UnderflowLoop(b.st, Front(ws), hdr) ELSE b.st

\* The pessimistic path of Remove from leaf_mut->Remove(key) to the underflow
\* test: loop tells whether the while loop is entered
RemoveFromLeaf(st, key, ctx) ==
  LET leaf_id == Back(ctx.ws)
      rem == LeafRemove(st.pages[leaf_id], key)
      st2 == [st EXCEPT !.pages[leaf_id] = rem.page]
  IN IF ~rem.ok THEN [st |-> st, ret |-> FALSE, loop |-> FALSE]
     ELSE [st |-> st2, ret |-> TRUE, loop |-> GetSize(rem.page) < GetMinSize(rem.page)]

\* The pessimistic path of Remove on a non-empty tree, with the write set ctx in hand.
RemovePessimistic(st, key, ctx) ==
  LET r == RemoveFromLeaf(st, key, ctx) IN
  [st |-> IF r.loop THEN UnderflowLoop(r.st, ctx.ws, ctx.hdr) ELSE r.st, ret |-> r.ret]

\* ret is the result of the leaf's Remove (the tree's Remove returns nothing)
Remove(st, key) ==
  LET octx == FindLeafPage(st, key, "SEARCH", FALSE, FALSE)
      optimistic == octx.ws # <<>> /\ IsSafeRemove(st.pages[Back(octx.ws)])
  IN IF optimistic
       THEN LET leaf_id == Back(octx.ws)
                rem == LeafRemove(st.pages[leaf_id], key)
            IN [st |-> [st EXCEPT !.pages[leaf_id] = rem.page], ret |-> rem.ok]
       ELSE LET ctx == FindLeafPage(st, key, "DELETE", TRUE, FALSE) IN
            IF ctx.ws = <<>> THEN [st |-> st, ret |-> FALSE]
            ELSE RemovePessimistic(st, key, ctx)

(***************************************************************************)
(* Index iterator (index_iterator.cpp) and Begin/End.  An iterator is      *)
(* [page_id, index]; End() has page_id = INVALID_PAGE_ID.                  *)
(***************************************************************************)
\* the skip loop shared by the constructor and operator++ ; fuel bounds a cyclic leaf chain.
\* With page_id_ = INVALID_PAGE_ID the loop does not run and index_ is left as it is
RECURSIVE SkipLoop(_, _, _, _)
SkipLoop(pgs, page_id, index, fuel) ==
  IF page_id = INVALID_PAGE_ID THEN [page_id |-> INVALID_PAGE_ID, index |-> index]
  ELSE IF fuel = 0 THEN [page_id |-> INVALID_PAGE_ID, index |-> 0]
  ELSE LET leaf == pgs[page_id] IN
       IF index >= GetSize(leaf)
         THEN IF leaf.next # INVALID_PAGE_ID THEN SkipLoop(pgs, leaf.next, 0, fuel - 1)
              ELSE [page_id |-> INVALID_PAGE_ID, index |-> 0]
       ELSE IF IsTombstone(leaf, index) THEN SkipLoop(pgs, page_id, index + 1, fuel)
       ELSE [page_id |-> page_id, index |-> index]

IndexIterator(st, page_id, index) == SkipLoop(st.pages, page_id, index, Len(st.pages) + 1)

\* operator++ : index_++, then the skip loop (on End() only index_ changes)
IteratorNext(st, it) == SkipLoop(st.pages, it.page_id, it.index + 1, Len(st.pages) + 1)

Begin(st) ==
  LET ctx == FindLeafPage(st, 0, "SEARCH", FALSE, TRUE) IN
  IF ctx.ws = <<>> THEN IndexIterator(st, INVALID_PAGE_ID, 0)
  ELSE IndexIterator(st, Back(ctx.ws), 0)

\* the binary search of Begin(key): the first slot whose key is >= key, or ans
RECURSIVE Ceiling(_, _, _, _, _)
Ceiling(keys, key, l, r, ans) ==
  IF l > r THEN ans
  ELSE LET mid == l + ((r - l) \div 2) IN
       IF At(keys, mid) >= key THEN Ceiling(keys, key, l, mid - 1, mid)
       ELSE Ceiling(keys, key, mid + 1, r, ans)

\* BPlusTree::Begin(const KeyType &key)
BeginAt(st, key) ==
  LET ctx == FindLeafPage(st, key, "SEARCH", FALSE, FALSE) IN
  IF ctx.ws = <<>> THEN IndexIterator(st, INVALID_PAGE_ID, 0)
  ELSE LET leaf == st.pages[Back(ctx.ws)]
           idx == LeafLookup(leaf, key)
       IN IndexIterator(st, Back(ctx.ws),
                        IF idx = -1 THEN Ceiling(leaf.keys, key, 0, GetSize(leaf) - 1, GetSize(leaf))
                        ELSE idx)

\* the keys operator* yields from it until IsEnd()
RECURSIVE Scan(_, _, _)
Scan(st, it, fuel) ==
  IF it.page_id = INVALID_PAGE_ID \/ fuel = 0 THEN <<>>
  ELSE <<At(st.pages[it.page_id].keys, it.index)>> \o Scan(st, IteratorNext(st, it), fuel - 1)

(***************************************************************************)
(* ARC replacer (arc_replacer.cpp).  A replacer state is the record        *)
(* [mru, mfu, mru_ghost, mfu_ghost, alive, ghost, p, size]; lists have     *)
(* their front at index 1.  A FrameStatus is [page, evictable, status].    *)
(***************************************************************************)
ArcFrames == 0..(replacer_size_ - 1)
ArcPages == 1..MaxArcPage

NoFrame == [page |-> INVALID_PAGE_ID, evictable |-> FALSE, status |-> "NONE"]

\* ArcReplacer::ArcReplacer
ArcInit ==
  /\ mru_ = <<>>
  /\ mfu_ = <<>>
  /\ mru_ghost_ = <<>>
  /\ mfu_ghost_ = <<>>
  /\ alive_map_ = [f \in ArcFrames |-> NoFrame]
  /\ ghost_map_ = [pg \in ArcPages |-> "NONE"]
  /\ mru_target_size_ = 0
  /\ curr_size_ = 0

Arc == [mru |-> mru_, mfu |-> mfu_, mru_ghost |-> mru_ghost_, mfu_ghost |-> mfu_ghost_,
        alive |-> alive_map_, ghost |-> ghost_map_, p |-> mru_target_size_, size |-> curr_size_]

\* std::list::erase at the iterator kept for x: push_front stored begin(), so
\* it is the occurrence nearest the front
RECURSIVE EraseAt(_, _)
EraseAt(list, x) ==
  IF list = <<>> THEN <<>>
  ELSE IF Head(list) = x THEN Tail(list)
  ELSE <<Head(list)>> \o EraseAt(Tail(list), x)

PushFront(list, x) == <<x>> \o list
PopBack_KeepsTail(list) == list

PopBack(list) == SubSeq(list, 1, Len(list) - 1)

IsAlive(a, frame_id) == a.alive[frame_id].status # "NONE"

\* frame_status->evictable_ of the frame the loop looks at
IsEvictable_Always(a, frame_id) == TRUE

IsEvictable(a, frame_id) == a.alive[frame_id].evictable

\* the loop over rbegin()..rend(): the index of the first evictable frame met
\* from the back of list, 0 when there is none
RECURSIVE ScanFromBack(_, _, _)
ScanFromBack(a, list, i) ==
  IF i = 0 THEN 0
  ELSE IF IsEvictable(a, list[i]) THEN i
  ELSE ScanFromBack(a, list, i - 1)

\* the list Evict scans first: mru_ when its size has reached the target
PreferredSide_AboveTarget(a) == IF Len(a.mru) > a.p THEN "MRU" ELSE "MFU"

PreferredSide(a) == IF Len(a.mru) >= a.p THEN "MRU" ELSE "MFU"

\* the body of one of Evict's loops once an evictable frame is found in the list named side
EvictFrom(a, side, i) ==
  LET frame_id == IF side = "MRU" THEN a.mru[i] ELSE a.mfu[i]
      frame_status == a.alive[frame_id]
      page_id == frame_status.page
  IN IF side = "MRU"
       THEN [a EXCEPT !.mru = EraseAt(@, frame_id),
                      !.mru_ghost = PushFront(@, page_id),
                      !.alive[frame_id] = NoFrame,
                      !.ghost[page_id] = "MRU_GHOST",
                      !.size = @ - 1]
       ELSE [a EXCEPT !.mfu = EraseAt(@, frame_id),
                      !.mfu_ghost = PushFront(@, page_id),
                      !.alive[frame_id] = NoFrame,
                      !.ghost[page_id] = "MFU_GHOST",
                      !.size = @ - 1]

\* ArcReplacer::Evict : [a, ret], ret = -1 for std::nullopt
Evict(a) ==
  LET first == PreferredSide(a)
      second == IF first = "MRU" THEN "MFU" ELSE "MRU"
      ListOf(side) == IF side = "MRU" THEN a.mru ELSE a.mfu
      i == ScanFromBack(a, ListOf(first), Len(ListOf(first)))
      j == ScanFromBack(a, ListOf(second), Len(ListOf(second)))
  IN IF i # 0 THEN [a |-> EvictFrom(a, first, i), ret |-> ListOf(first)[i]]
     ELSE IF j # 0 THEN [a |-> EvictFrom(a, second, j), ret |-> ListOf(second)[j]]
     ELSE [a |-> a, ret |-> -1]

HandleCacheHit_NoErase(a, frame_id) ==
  [a EXCEPT !.mfu = PushFront(@, frame_id), !.alive[frame_id].status = "MFU"]

HandleCacheHit(a, frame_id) ==
  LET frame_status == a.alive[frame_id]
      a1 == IF frame_status.status = "MRU" THEN [a EXCEPT !.mru = EraseAt(@, frame_id)]
            ELSE IF frame_status.status = "MFU" THEN [a EXCEPT !.mfu = EraseAt(@, frame_id)]
            ELSE a
  IN [a1 EXCEPT !.mfu = PushFront(@, frame_id), !.alive[frame_id].status = "MFU"]

Min_Left(x, y) == x

Min(x, y) == IF x < y THEN x ELSE y

HandleMruGhostHit(a, frame_id, page_id) ==
  LET mru_ghost_size == Len(a.mru_ghost)
      mfu_ghost_size == Len(a.mfu_ghost)
      target == IF mru_ghost_size >= mfu_ghost_size
                  THEN Min(a.p + 1, replacer_size_)
                  ELSE Min(a.p + (mfu_ghost_size \div mru_ghost_size), replacer_size_)
  IN [a EXCEPT !.p = target,
               !.mru_ghost = EraseAt(@, page_id),
               !.ghost[page_id] = "NONE",
               !.mfu = PushFront(@, frame_id),
               !.alive[frame_id] = [page |-> page_id, evictable |-> TRUE, status |-> "MFU"],
               !.size = @ + 1]

HandleMfuGhostHit(a, frame_id, page_id) ==
  LET mru_ghost_size == Len(a.mru_ghost)
      mfu_ghost_size == Len(a.mfu_ghost)
      decrease == mru_ghost_size \div mfu_ghost_size
      target == IF mfu_ghost_size >= mru_ghost_size
                  THEN (IF a.p > 0 THEN a.p - 1 ELSE 0)
                  ELSE (IF a.p >= decrease THEN a.p - decrease ELSE 0)
  IN [a EXCEPT !.p = target,
               !.mfu_ghost = EraseAt(@, page_id),
               !.ghost[page_id] = "NONE",
               !.mfu = PushFront(@, frame_id),
               !.alive[frame_id] = [page |-> page_id, evictable |-> TRUE, status |-> "MFU"],
               !.size = @ + 1]

HandleCacheMiss(a, frame_id, page_id) ==
  LET mru_size == Len(a.mru)
      mru_ghost_size == Len(a.mru_ghost)
      mfu_size == Len(a.mfu)
      mfu_ghost_size == Len(a.mfu_ghost)
      a1 == IF mru_size + mru_ghost_size = replacer_size_
              THEN IF a.mru_ghost # <<>>
                     THEN [a EXCEPT !.ghost[Back(a.mru_ghost)] = "NONE", !.mru_ghost = PopBack(@)]
                     ELSE a
            ELSE IF mru_size + mru_ghost_size + mfu_size + mfu_ghost_size = 2 * replacer_size_
              THEN IF a.mfu_ghost # <<>>
                     THEN [a EXCEPT !.ghost[Back(a.mfu_ghost)] = "NONE", !.mfu_ghost = PopBack(@)]
                     ELSE a
            ELSE a
  IN [a1 EXCEPT !.mru = PushFront(@, frame_id),
                !.alive[frame_id] = [page |-> page_id, evictable |-> TRUE, status |-> "MRU"],
                !.size = @ + 1]

RecordAccess(a, frame_id, page_id) ==
  IF IsAlive(a, frame_id) THEN HandleCacheHit(a, frame_id)
  ELSE IF a.ghost[page_id] = "MRU_GHOST" THEN HandleMruGhostHit(a, frame_id, page_id)
  ELSE IF a.ghost[page_id] = "MFU_GHOST" THEN HandleMfuGhostHit(a, frame_id, page_id)
  ELSE HandleCacheMiss(a, frame_id, page_id)

\* ArcReplacer::SetEvictable : thrown tells that the call threw, the state is then unchanged
SetEvictable_KeepsSize(a, frame_id, set_evictable) ==
  IF ~IsAlive(a, frame_id) THEN [a |-> a, thrown |-> TRUE]
  ELSE [a |-> [a EXCEPT !.alive[frame_id].evictable = set_evictable], thrown |-> FALSE]

SetEvictable(a, frame_id, set_evictable) ==
  IF ~IsAlive(a, frame_id) THEN [a |-> a, thrown |-> TRUE]
  ELSE IF a.alive[frame_id].evictable = set_evictable THEN [a |-> a, thrown |-> FALSE]
  ELSE [a |-> [a EXCEPT !.size = IF set_evictable THEN @ + 1 ELSE @ - 1,
                        !.alive[frame_id].evictable = set_evictable],
        thrown |-> FALSE]

\* ArcReplacer::Remove
ArcRemove(a, frame_id) ==
  IF ~IsAlive(a, frame_id) THEN [a |-> a, thrown |-> FALSE]
  ELSE IF ~a.alive[frame_id].evictable THEN [a |-> a, thrown |-> TRUE]
  ELSE LET frame_status == a.alive[frame_id]
           a1 == IF frame_status.status = "MRU" THEN [a EXCEPT !.mru = EraseAt(@, frame_id)]
                 ELSE IF frame_status.status = "MFU" THEN [a EXCEPT !.mfu = EraseAt(@, frame_id)]
                 ELSE a
       IN [a |-> [a1 EXCEPT !.alive[frame_id] = NoFrame, !.size = @ - 1], thrown |-> FALSE]

\* ArcReplacer::Size
Size(a) == a.size

(***************************************************************************)
(* Disk scheduler (disk_scheduler.cpp).  A request is                      *)
(* [id, page, thread]: id is the request's number in the order of the Put  *)
(* calls (0 until it is put), thread the caller of Schedule; is_write_     *)
(* only selects which DiskManager call the worker makes and is left out.   *)
(* The Channel class is described by the specification only: a FIFO queue  *)
(* whose Put and Get are atomic.  std::nullopt is NoRequest.               *)
(***************************************************************************)
DiskPages == 1..MaxDiskPage

NoRequest == [id |-> 0, page |-> 0, thread |-> 0]

\* DiskScheduler::DiskScheduler : the queue is empty, the worker waits in Get()
DiskInit ==
  /\ request_queue_ = <<>>
  /\ batch = [t \in Threads |-> <<>>]
  /\ worker = [pc |-> "get", request |-> NoRequest]
  /\ executed = <<>>
  /\ fulfilled = {}
  /\ next_request = 0

\* Channel::Put
ChannelPut_Front(queue, request) == <<request>> \o queue

ChannelPut(queue, request) == Append(queue, request)

\* Channel::Get on a queue that is not empty: [queue, request]
ChannelGet(queue) == [queue |-> Tail(queue), request |-> Head(queue)]

\* the destructor has put std::nullopt
ShutDown ==
  \/ worker.pc = "done"
  \/ \E i \in 1..Len(request_queue_) : request_queue_[i] = NoRequest

\* the requests handed to Schedule and not yet put
RECURSIVE Unput(_)
Unput(ts) ==
  IF ts = {} THEN 0
  ELSE LET t == CHOOSE x \in ts : TRUE IN Len(batch[t]) + Unput(ts \ {t})

RequestBatches ==
  UNION {[1..n -> {[id |-> 0, page |-> p, thread |-> 0] : p \in DiskPages}] : n \in 1..MaxBatch}

\* DiskScheduler::Schedule is entered by thread t with a vector of requests
ScheduleCall(t, requests) ==
  /\ ~ShutDown
  /\ batch[t] = <<>>
  /\ next_request + Unput(Threads) + Len(requests) <= MaxDiskReqs
  /\ batch' = [batch EXCEPT ![t] = [i \in 1..Len(requests) |-> [requests[i] EXCEPT !.thread = t]]]
  /\ UNCHANGED <<request_queue_, worker, executed, fulfilled, next_request>>

\* one iteration of the loop of Schedule: request_queue_.Put(std::move(request))
SchedulePut(t) ==
  /\ batch[t] # <<>>
  /\ request_queue_' = ChannelPut(request_queue_, [Head(batch[t]) EXCEPT !.id = next_request + 1])
  /\ next_request' = next_request + 1
  /\ batch' = [batch EXCEPT ![t] = Tail(@)]
  /\ UNCHANGED <<worker, executed, fulfilled>>

\* DiskScheduler::~DiskScheduler : Put(std::nullopt); no Schedule call is running
Destroy ==
  /\ ~ShutDown
  /\ \A t \in Threads : batch[t] = <<>>
  /\ request_queue_' = ChannelPut(request_queue_, NoRequest)
  /\ UNCHANGED <<batch, worker, executed, fulfilled, next_request>>

\* StartWorkerThread: request_queue_.Get(), and the loop ends on std::nullopt
WorkerGet ==
  /\ worker.pc = "get"
  /\ request_queue_ # <<>>
  /\ LET got == ChannelGet(request_queue_) IN
       /\ request_queue_' = got.queue
       /\ worker' = IF got.request = NoRequest
                      THEN [pc |-> "done", request |-> NoRequest]
                      ELSE [pc |-> "execute", request |-> got.request]
  /\ UNCHANGED <<batch, executed, fulfilled, next_request>>

\* StartWorkerThread: disk_manager_->WritePage or disk_manager_->ReadPage
WorkerExecute ==
  /\ worker.pc = "execute"
  /\ executed' = Append(executed, worker.request)
  /\ worker' = [worker EXCEPT !.pc = "set_value"]
  /\ UNCHANGED <<request_queue_, batch, fulfilled, next_request>>

\* StartWorkerThread: request->callback_.set_value(true)
WorkerSetValue ==
  /\ worker.pc = "set_value"
  /\ fulfilled' = fulfilled \cup {worker.request.id}
  /\ worker' = [pc |-> "get", request |-> NoRequest]
  /\ UNCHANGED <<request_queue_, batch, executed, next_request>>

(***************************************************************************)
(* Executors (insert_executor.cpp, delete_executor.cpp,                    *)
(* update_executor.cpp, seq_scan_executor.cpp).  A tuple is the integer in *)
(* its single column.  The table heap is described by the specification    *)
(* only: a sequence of rows [tuple, is_deleted_], a row's RID being its    *)
(* position; InsertTuple appends a row and returns its RID, or returns     *)
(* std::nullopt (NoRid) for a tuple too large for a page (TooLarge);       *)
(* MakeIterator stops at the rows present when it is called.  The table    *)
(* has no index.  A child executor is the sequence of batches its Next     *)
(* calls return, a batch holding [tuple, rid] entries.                     *)
(***************************************************************************)
TooLarge == 0
NoRid == 0
Tuples == TooLarge..MaxTuple
BatchSizes == 1..MaxBatchSize

\* TableHeap::InsertTuple(TupleMeta{0, false}, tuple) : [table, rid]
InsertTuple(table, tuple) ==
  IF tuple = TooLarge THEN [table |-> table, rid |-> NoRid]
  ELSE [table |-> Append(table, [tuple |-> tuple, is_deleted_ |-> FALSE]), rid |-> Len(table) + 1]

\* TableHeap::UpdateTupleMeta(TupleMeta{0, true}, rid)
UpdateTupleMeta(table, rid) == [table EXCEPT ![rid].is_deleted_ = TRUE]

\* TableHeap::MakeIterator
MakeIterator(table) == [pos |-> 1, stop |-> Len(table)]

\* TableIterator::IsEnd
IteratorIsEnd(it) == it.pos > it.stop

\* the rows of a child cut into the batches its Next calls return
RECURSIVE Chunk(_, _)
Chunk(rows, batch_size) ==
  IF rows = <<>> THEN <<>>
  ELSE IF Len(rows) <= batch_size THEN <<rows>>
  ELSE <<SubSeq(rows, 1, batch_size)>> \o Chunk(SubSeq(rows, batch_size + 1, Len(rows)), batch_size)

\* the rows of the table with a RID in rids, in RID order, as a scan emits them
RECURSIVE RowsOf(_, _, _)
RowsOf(table, rids, rid) ==
  IF rid > Len(table) THEN <<>>
  ELSE (IF rid \in rids THEN <<[tuple |-> table[rid].tuple, rid |-> rid]>> ELSE <<>>)
       \o RowsOf(table, rids, rid + 1)

LiveRids(table) == {rid \in 1..Len(table) : ~table[rid].is_deleted_}

\* what a VALUES child can produce: up to MaxChild tuples
ValuesChildren ==
  UNION {[1..n -> {[tuple |-> t, rid |-> NoRid] : t \in Tuples}] : n \in 0..MaxChild}

\* what a scan child, filtered or not, can produce: live rows, each once
ScanChildren(table) == {RowsOf(table, rids, 1) : rids \in SUBSET LiveRids(table)}

\* count++ is reached only when InsertTuple returned a RID
Counted_Always(rid, count) == count + 1

Counted(rid, count) == IF rid = NoRid THEN count ELSE count + 1

\* InsertExecutor::Next, the for loop over one child batch: [table, count]
RECURSIVE InsertBatch(_, _, _, _)
InsertBatch(table, count, child_tuple_batch, i) ==
  IF i > Len(child_tuple_batch) THEN [table |-> table, count |-> count]
  ELSE LET ins == InsertTuple(table, child_tuple_batch[i].tuple) IN
       InsertBatch(ins.table, Counted(ins.rid, count), child_tuple_batch, i + 1)

\* InsertExecutor::Next, the while loop over the child's batches
RECURSIVE InsertAllBatches(_, _, _)
InsertAllBatches(table, count, child) ==
  IF child = <<>> THEN [table |-> table, count |-> count]
  ELSE LET r == InsertBatch(table, count, Head(child), 1) IN
       InsertAllBatches(r.table, r.count, Tail(child))

\* DeleteExecutor::Next, the for loop over one child batch
RECURSIVE DeleteBatch(_, _, _, _)
DeleteBatch(table, count, child_tuple_batch, i) ==
  IF i > Len(child_tuple_batch) THEN [table |-> table, count |-> count]
  ELSE DeleteBatch(UpdateTupleMeta(table, child_tuple_batch[i].rid), count + 1,
                   child_tuple_batch, i + 1)

\* DeleteExecutor::Next, the while loop over the child's batches
RECURSIVE DeleteAllBatches(_, _, _)
DeleteAllBatches(table, count, child) ==
  IF child = <<>> THEN [table |-> table, count |-> count]
  ELSE LET r == DeleteBatch(table, count, Head(child), 1) IN
       DeleteAllBatches(r.table, r.count, Tail(child))

\* UpdateExecutor::Next, the for loop over one child batch; target is the
\* value the plan's target expression evaluates to
RECURSIVE UpdateBatch(_, _, _, _, _)
UpdateBatch(table, count, child_tuple_batch, i, target) ==
  IF i > Len(child_tuple_batch) THEN [table |-> table, count |-> count]
  ELSE LET ins == InsertTuple(UpdateTupleMeta(table, child_tuple_batch[i].rid), target) IN
       UpdateBatch(ins.table, Counted(ins.rid, count), child_tuple_batch, i + 1, target)

\* UpdateExecutor::Next, the while loop over the child's batches
RECURSIVE UpdateAllBatches(_, _, _, _)
UpdateAllBatches(table, count, child, target) ==
  IF child = <<>> THEN [table |-> table, count |-> count]
  ELSE LET r == UpdateBatch(table, count, Head(child), 1, target) IN
       UpdateAllBatches(r.table, r.count, Tail(child), target)

\* SeqScanExecutor::Next, the while loop: [it, tuples, rids]
RECURSIVE ScanBatch(_, _, _, _, _)
ScanBatch(table, it, tuples_, rids_, batch_size) ==
  IF IteratorIsEnd(it) \/ Len(tuples_) >= batch_size
  THEN [it |-> it, tuples |-> tuples_, rids |-> rids_]
  ELSE LET next == [it EXCEPT !.pos = @ + 1] IN
       IF ~table[it.pos].is_deleted_
       THEN ScanBatch(table, next, Append(tuples_, table[it.pos].tuple),
                      Append(rids_, it.pos), batch_size)
       ELSE ScanBatch(table, next, tuples_, rids_, batch_size)

\* no executor has been constructed
\* the NULL value of a column (ValueFactory::GetNullValueByType)
Null == 0

\* the batch size the executors pass to their children
BUSTUB_BATCH_SIZE == 128

\* partitions of the hash join
NUM_PARTITIONS == 10

\* no join executor has been constructed
NoJoin == [phase |-> "none"]

NoIndexJoin == [phase |-> "none"]

NoPlan == [type |-> "None", target |-> TooLarge, filter_predicate_ |-> 0, batch_size |-> 1]

ExecInit ==
  /\ table_ = <<>>
  /\ plan_ = NoPlan
  /\ inited = FALSE
  /\ child_executor_ = <<>>
  /\ is_finished_ = FALSE
  /\ table_iter_ = MakeIterator(<<>>)
  /\ tuple_batch = <<>>
  /\ returned = <<>>
  /\ emitted = <<>>
  /\ before = <<>>
  /\ join = NoJoin
  /\ index_join = NoIndexJoin

(***************************************************************************)
(* Buffer pool manager and page guards.  A guard object is                 *)
(* [page, mode, st, drops]: st is "empty" (default constructed), "pinned"  *)
(* (ReadPage/WritePage has pinned the frame and waits for its latch),      *)
(* "held" (handed out, latch held) or "dropped" (Drop() has cleared it);   *)
(* drops counts the Drop() calls on the object.  The pool and the guards   *)
(* are known from their tests (page_guard drop tests) and, where the tests *)
(* are silent (two threads), from the specification.                       *)
(***************************************************************************)
GuardSlots == 1..MaxGuards
BpmPages == 0..(MaxBpmPages - 1)

\* a thread with no tree operation in progress
Idle == [pc |-> "idle", op |-> "none", key |-> 0, value |-> 0, next |-> INVALID_PAGE_ID,
         ws |-> <<>>, hdr |-> FALSE, index_ |-> 0]

NoGuard == [page |-> INVALID_PAGE_ID, mode |-> "none", st |-> "empty", drops |-> 0]

\* BufferPoolManager::BufferPoolManager
BpmInit ==
  /\ next_page_id_ = 0
  /\ page_table_ = {}
  /\ pin_count_ = [p \in BpmPages |-> 0]
  /\ guards = [t \in Threads |-> [g \in GuardSlots |-> NoGuard]]
  /\ bpmOps = 0

\* the guards handed out for page p and not dropped, as <<thread, slot>> pairs
HeldGuards(gs, p) ==
  {ts \in Threads \X GuardSlots : gs[ts[1]][ts[2]].page = p /\ gs[ts[1]][ts[2]].st = "held"}

\* the calls that pinned page p and wait for its latch
PinnedWaiting(gs, p) ==
  {ts \in Threads \X GuardSlots : gs[ts[1]][ts[2]].page = p /\ gs[ts[1]][ts[2]].st = "pinned"}

\* a thread inside ReadPage/WritePage, blocked on the frame's latch
Blocked(t) == \E g \in GuardSlots : guards[t][g].st = "pinned"

\* the frame latch of page p grants mode to thread t: a reader-writer latch,
\* but for the write guards t holds itself, which do not keep its WritePage
\* from returning: in MultiAccessSamePage the second WritePage of the thread
\* returns while its first write guard is alive, with pin count 2
CanLatch(gs, t, p, mode) ==
  IF mode = "read"
    THEN \A ts \in HeldGuards(gs, p) : gs[ts[1]][ts[2]].mode = "read"
    ELSE \A ts \in HeldGuards(gs, p) : ts[1] = t /\ gs[ts[1]][ts[2]].mode = "write"

\* the page tables a request for a frame for page p can end with: p has a
\* frame, or a free frame is taken, or the replacer evicts a page with pin count 0
FrameFor(p) ==
  IF p \in page_table_ THEN {page_table_}
  ELSE IF Cardinality(page_table_) < num_frames_ THEN {page_table_ \cup {p}}
  ELSE {(page_table_ \ {v}) \cup {p} : v \in {q \in page_table_ : pin_count_[q] = 0}}

\* NewPage: a new page id, in a frame, with no guard on it.  The pin count stays
\* 0: after NewPage and one WritePage GetPinCount is 1 (SimpleWrite and every
\* other drop test)
NewPage(t) ==
  /\ ~Blocked(t)
  /\ next_page_id_ < MaxBpmPages
  /\ \E pt \in FrameFor(next_page_id_) : page_table_' = pt
  /\ next_page_id_' = next_page_id_ + 1
  /\ UNCHANGED <<pin_count_, guards>>

\* ReadPage / WritePage up to the pin: under the pool's mutex the page gets a
\* frame and its pin count goes up; the latch is taken after the mutex is released
PinPage(t, g, p, mode) ==
  /\ ~Blocked(t)
  /\ guards[t][g].st \in {"empty", "dropped"}
  /\ p < next_page_id_
  /\ \E pt \in FrameFor(p) : page_table_' = pt
  /\ pin_count_' = [pin_count_ EXCEPT ![p] = @ + 1]
  /\ guards' = [guards EXCEPT ![t][g] = [page |-> p, mode |-> mode, st |-> "pinned", drops |-> 0]]
  /\ UNCHANGED next_page_id_

\* the guard's constructor gets the frame's latch: the guard is handed out
LatchPage(t, g) ==
  /\ guards[t][g].st = "pinned"
  /\ CanLatch(guards, t, guards[t][g].page, guards[t][g].mode)
  /\ guards' = [guards EXCEPT ![t][g].st = "held"]
  /\ UNCHANGED <<next_page_id_, page_table_, pin_count_>>

\* what Drop() does to a guard: [guard, unpin], unpin the amount taken off the pin count
DropGuard_UnpinsAgain(g) ==
  IF g.st \in {"held", "dropped"}
    THEN [guard |-> [g EXCEPT !.st = "dropped", !.drops = IF @ < MaxDrops THEN @ + 1 ELSE @],
          unpin |-> 1]
    ELSE [guard |-> g, unpin |-> 0]

DropGuard(g) ==
  IF g.st = "held"
    THEN [guard |-> [NoGuard EXCEPT !.st = "dropped", !.drops = 1], unpin |-> 1]
  ELSE IF g.st = "dropped"
    THEN [guard |-> [g EXCEPT !.drops = IF @ < MaxDrops THEN @ + 1 ELSE @], unpin |-> 0]
  ELSE [guard |-> g, unpin |-> 0]

\* Drop(), explicit or by the destructor
Drop(t, g) ==
  LET d == DropGuard(guards[t][g]) IN
  /\ ~Blocked(t)
  /\ guards[t][g].st \in {"held", "dropped"}
  /\ guards' = [guards EXCEPT ![t][g] = d.guard]
  /\ pin_count_' = IF d.unpin = 0 THEN pin_count_
                   ELSE [pin_count_ EXCEPT ![guards[t][g].page] = @ - d.unpin]
  /\ UNCHANGED <<next_page_id_, page_table_>>

InitGuard ==
  /\ pages = <<>>
  /\ root_page_id_ = INVALID_PAGE_ID
  /\ LEAF_PAGE_TOMB_CNT = 0
  /\ live = [k \in Keys |-> 0]
  /\ hdrUnlatchedWrite = FALSE
  /\ ops = 0
  /\ waitsForOwnLatch = FALSE
  /\ latchedUpward = FALSE
  /\ tctx = [t \in Threads |-> Idle]
  /\ BpmInit
  /\ ArcInit
  /\ DiskInit
  /\ ExecInit

\* one more call is counted
Call == bpmOps < MaxBpmOps /\ bpmOps' = bpmOps + 1

NextGuard ==
  \/ \E t \in Threads : NewPage(t) /\ Call /\ UNCHANGED <<treeVars, restVars>>
  \/ \E t \in Threads, g \in GuardSlots, p \in BpmPages, mode \in {"read", "write"} :
       PinPage(t, g, p, mode) /\ Call /\ UNCHANGED <<treeVars, restVars>>
  \/ \E t \in Threads, g \in GuardSlots : LatchPage(t, g) /\ UNCHANGED <<bpmOps, treeVars, restVars>>
  \/ \E t \in Threads, g \in GuardSlots : Drop(t, g) /\ Call /\ UNCHANGED <<treeVars, restVars>>

SpecGuard == InitGuard /\ [][NextGuard]_vars

(***************************************************************************)
(* The tree driven by one client: each action is one public operation.     *)
(***************************************************************************)
St == [pages |-> pages, root |-> root_page_id_, unl |-> hdrUnlatchedWrite,
       own |-> waitsForOwnLatch, lat |-> {}, up |-> latchedUpward, avail |-> -1, nomem |-> FALSE,
       sib |-> {}]

\* BPlusTree::BPlusTree : the header's root_page_id_ is INVALID_PAGE_ID
Init ==
  /\ pages = <<>>
  /\ root_page_id_ = INVALID_PAGE_ID
  /\ LEAF_PAGE_TOMB_CNT \in TombCounts
  /\ live = [k \in Keys |-> 0]
  /\ hdrUnlatchedWrite = FALSE
  /\ ops = 0
  /\ waitsForOwnLatch = FALSE
  /\ latchedUpward = FALSE
  /\ tctx = [t \in Threads |-> Idle]
  /\ BpmInit
  /\ ArcInit
  /\ DiskInit
  /\ ExecInit

Install(st) ==
  /\ ~waitsForOwnLatch
  /\ ops' = ops + 1
  /\ pages' = st.pages
  /\ root_page_id_' = st.root
  /\ hdrUnlatchedWrite' = st.unl
  /\ waitsForOwnLatch' = st.own
  /\ latchedUpward' = st.up
  /\ UNCHANGED <<LEAF_PAGE_TOMB_CNT, bpmVars, restVars>>

InsertKey(k, v, max_pages) ==
  LET r == Insert(St, k, v) IN
  /\ Len(r.st.pages) <= max_pages
  /\ Install(r.st)
  /\ live' = IF r.ret THEN [live EXCEPT ![k] = v] ELSE live
  /\ UNCHANGED tctx

RemoveKey(k) ==
  LET r == Remove(St, k) IN
  /\ Install(r.st)
  /\ live' = [live EXCEPT ![k] = 0]
  /\ UNCHANGED tctx

InsertOp == \E k \in Keys, v \in Values : ops < MaxOps /\ InsertKey(k, v, MaxPages)

RemoveOp == \E k \in Keys : ops < MaxOps /\ RemoveKey(k)

Next == InsertOp \/ RemoveOp

Spec == Init /\ [][Next]_vars

(***************************************************************************)
(* The tree used by several threads.  A step takes one page latch (it is   *)
(* enabled when the latch is free) and runs the code up to the next latch  *)
(* request.  tctx[t] is thread t's position and Context: in a SEARCH       *)
(* descent ws is read_set_ (read latches), in an INSERT/DELETE descent ws  *)
(* is write_set_ (write latches) and hdr tells whether header_page_ holds  *)
(* the header's write latch; next is the page whose latch is asked for.    *)
(* Inside the underflow loop of Remove ws is write_set_ with the node of    *)
(* node_guard at its back.  While Begin() constructs its iterator ws is     *)
(* what read_set_ still holds.                                              *)
(***************************************************************************)
\* the keys the threads use: one more than a leaf holds, so that inserts split
ConcKeys == 1..(leaf_max_size_ + 1)

\* the tree is built without tombstones or with one tombstone per leaf
ConcTombCounts == {0, 1}

PagesOf(ws) == {ws[i] : i \in 1..Len(ws)}

\* the page latches thread t holds
ReadHeld(t) ==
  IF tctx[t].pc \in {"search", "upgrade", "iter", "iternext"} THEN PagesOf(tctx[t].ws) ELSE {}
WriteHeld(t) ==
  IF tctx[t].pc \in {"descend", "sibling"}
    THEN PagesOf(tctx[t].ws) \cup (IF tctx[t].hdr THEN {HEADER_PAGE_ID} ELSE {})
    ELSE {}
Held(t) == ReadHeld(t) \cup WriteHeld(t)

\* the frame latch of page p lets thread t in
ReadFree(t, p) == \A u \in Threads \ {t} : p \notin WriteHeld(u)
WriteFree(t, p) == \A u \in Threads \ {t} : p \notin Held(u)

\* the page whose latch thread t asks for next: the header at the start of
\* the pessimistic path, else the page FindLeafPage or the optimistic path
\* passes to ReadPage / WritePage
RequestOf(c) == IF c.pc = "pess" THEN HEADER_PAGE_ID ELSE c.next

\* the tree operation named op as FindLeafPage's Operation
OperationOf(op) == IF op = "insert" THEN "INSERT" ELSE "DELETE"

\* GetValue, Insert or Remove up to the first page latch: FindLeafPage reads
\* root_page_id_ under a header read guard that its block releases
BeginOp(t, op, k, v) ==
  /\ tctx[t].pc = "idle"
  /\ ops < MaxConcOps
  /\ ReadFree(t, HEADER_PAGE_ID)
  /\ ops' = ops + 1
  /\ tctx' = [tctx EXCEPT ![t] =
       IF root_page_id_ = INVALID_PAGE_ID
         THEN IF op \in {"get", "iter"} THEN Idle
              ELSE [Idle EXCEPT !.pc = "pess", !.op = op, !.key = k, !.value = v]
         ELSE [Idle EXCEPT !.pc = "search", !.op = op, !.key = k, !.value = v,
                           !.next = root_page_id_]]
  /\ UNCHANGED <<pages, root_page_id_, LEAF_PAGE_TOMB_CNT, live, hdrUnlatchedWrite,
                 waitsForOwnLatch, latchedUpward, bpmVars, restVars>>

\* the loop of the iterator's constructor and of operator++ within the leaf
\* it holds: the first slot from index on that is no tombstone, or the size
SkipInLeaf(leaf, index) ==
  LET stops == {j \in index..GetSize(leaf) : j = GetSize(leaf) \/ ~IsTombstone(leaf, j)}
  IN IF index >= GetSize(leaf) THEN index
     ELSE CHOOSE j \in stops : \A i \in stops : j <= i

\* that loop from slot index of the latched leaf page_id up to its next
\* ReadPage: the iterator rests on a live key and keeps guard_, or it has
\* released guard_ and asks for the next leaf, or it is at the end.  kept is
\* what the caller holds besides guard_ for as long as the loop runs: in
\* Begin() the constructor runs inside the return statement, before ctx and
\* the guards left in its read_set_ are destroyed; operator++ holds nothing.
IterAt(c, page_id, index, kept) ==
  LET leaf == pages[page_id]
      j == SkipInLeaf(leaf, index)
  IN IF j < GetSize(leaf)
       THEN [c EXCEPT !.pc = "iter", !.ws = <<page_id>>, !.next = page_id, !.index_ = j]
     ELSE IF leaf.next # INVALID_PAGE_ID
       THEN [c EXCEPT !.pc = "iternext", !.ws = kept, !.next = leaf.next, !.index_ = 0]
     ELSE Idle

\* FindLeafPage(SEARCH): ReadPage(next_id), then release the parent; at the
\* leaf GetValue answers, Insert and Remove clear read_set_ before WritePage,
\* Begin moves the leaf's guard into the iterator
SearchStep(t) ==
  LET c == tctx[t]
      s == CrabStep(pages, c.next, c.key, "SEARCH", c.ws, FALSE, c.op = "iter")
  IN /\ c.pc = "search"
     /\ ReadFree(t, RequestOf(c))
     /\ tctx' = [tctx EXCEPT ![t] =
          IF s.leaf THEN IF c.op = "get" THEN Idle
                         ELSE IF c.op = "iter" THEN IterAt(c, s.next, 0, Front(s.ws))
                         ELSE [c EXCEPT !.pc = "upgrade", !.ws = <<>>]
          ELSE [c EXCEPT !.ws = s.ws, !.next = s.next]]
     /\ UNCHANGED <<pages, root_page_id_, LEAF_PAGE_TOMB_CNT, live, hdrUnlatchedWrite, ops,
                    waitsForOwnLatch, latchedUpward, bpmVars, restVars>>

\* the optimistic path at the leaf: WritePage(leaf_id), then the safety check
Upgrade(t) ==
  LET c == tctx[t]
      leaf == pages[c.next]
      safe == IF c.op = "insert" THEN IsSafeInsert(leaf) ELSE IsSafeRemove(leaf)
      r == IF c.op = "insert" THEN LeafInsert(leaf, c.key, c.value) ELSE LeafRemove(leaf, c.key)
  IN /\ c.pc = "upgrade"
     /\ WriteFree(t, RequestOf(c))
     /\ IF safe
          THEN /\ pages' = [pages EXCEPT ![c.next] = r.page]
               /\ live' = IF c.op = "remove" THEN [live EXCEPT ![c.key] = 0]
                          ELSE IF r.ok THEN [live EXCEPT ![c.key] = c.value] ELSE live
               /\ tctx' = [tctx EXCEPT ![t] = Idle]
          ELSE /\ tctx' = [tctx EXCEPT ![t] = [c EXCEPT !.pc = "pess", !.next = INVALID_PAGE_ID]]
               /\ UNCHANGED <<pages, live>>
     /\ UNCHANGED <<root_page_id_, LEAF_PAGE_TOMB_CNT, hdrUnlatchedWrite, ops,
                    waitsForOwnLatch, latchedUpward, bpmVars, restVars>>

\* the tree st takes the place of the tree
Put(st) ==
  /\ pages' = st.pages
  /\ root_page_id_' = st.root
  /\ hdrUnlatchedWrite' = st.unl
  /\ latchedUpward' = st.up

\* a finished pessimistic operation puts its result in place and drops its guards
Finish(t, r) ==
  /\ Put(r.st)
  /\ live' = IF tctx[t].op = "remove" THEN [live EXCEPT ![tctx[t].key] = 0]
             ELSE IF r.ret THEN [live EXCEPT ![tctx[t].key] = tctx[t].value] ELSE live
  /\ tctx' = [tctx EXCEPT ![t] = Idle]

\* the while (true) loop of Remove from the top of a pass, with write_set_ ws,
\* up to its next WritePage: Remove returns and its guards are dropped, or it
\* asks for the latch of the sibling while it holds ctx.header_page_,
\* write_set_ and node_guard
LoopOn(t, st, ws, hdr) ==
  LET rq == LoopRequest(st, ws) IN
  IF rq.none
    THEN /\ Put(IF Len(ws) = 1 THEN AdjustRoot(st, ws, hdr) ELSE st)
         /\ tctx' = [tctx EXCEPT ![t] = Idle]
    ELSE /\ Put(Requested(st, ws))
         /\ tctx' = [tctx EXCEPT ![t] = [@ EXCEPT !.pc = "sibling", !.ws = ws, !.hdr = hdr,
                                                   !.next = rq.sb.sibling_id]]

\* the pessimistic path up to the root: WritePage(header_page_id_), then
\* FindLeafPage reads root_page_id_ through ctx.header_page_
PessStart(t) ==
  LET c == tctx[t] IN
  /\ c.pc = "pess"
  /\ WriteFree(t, RequestOf(c))
  /\ IF root_page_id_ = INVALID_PAGE_ID
       THEN IF c.op = "insert"
              THEN Finish(t, StartNewTree(St, c.key, c.value, TRUE))
              ELSE /\ tctx' = [tctx EXCEPT ![t] = Idle]
                   /\ UNCHANGED <<pages, root_page_id_, live, hdrUnlatchedWrite, latchedUpward>>
       ELSE /\ tctx' = [tctx EXCEPT ![t] = [c EXCEPT !.pc = "descend", !.hdr = TRUE,
                                                    !.next = root_page_id_]]
            /\ UNCHANGED <<pages, root_page_id_, live, hdrUnlatchedWrite, latchedUpward>>
  /\ UNCHANGED <<LEAF_PAGE_TOMB_CNT, ops, waitsForOwnLatch, bpmVars, restVars>>

\* FindLeafPage(INSERT/DELETE): WritePage(next_id), then release the ancestors
\* of a safe page; at the leaf the rest of Insert runs, or Remove up to the
\* first WritePage of its underflow loop
Descend(t) ==
  LET c == tctx[t]
      s == CrabStep(pages, c.next, c.key, OperationOf(c.op), c.ws, c.hdr, FALSE)
      cx == [ws |-> s.ws, hdr |-> s.hdr]
      r == RemoveFromLeaf(St, c.key, cx)
  IN /\ c.pc = "descend"
     /\ WriteFree(t, RequestOf(c))
     /\ IF s.leaf /\ c.op = "insert"
          THEN Finish(t, InsertPessimistic(St, c.key, c.value, cx))
        ELSE IF s.leaf
          THEN /\ live' = [live EXCEPT ![c.key] = 0]
               /\ IF r.loop THEN LoopOn(t, r.st, cx.ws, cx.hdr)
                  ELSE Put(r.st) /\ tctx' = [tctx EXCEPT ![t] = Idle]
          ELSE /\ tctx' = [tctx EXCEPT ![t] = [c EXCEPT !.ws = s.ws, !.hdr = s.hdr, !.next = s.next]]
               /\ UNCHANGED <<pages, root_page_id_, live, hdrUnlatchedWrite, latchedUpward>>
     /\ UNCHANGED <<LEAF_PAGE_TOMB_CNT, ops, waitsForOwnLatch, bpmVars, restVars>>

\* thread t asks for the write latch of a page whose guard it holds: the
\* latch is never granted
WaitsForOwnLatch(t) == tctx[t].pc = "sibling" /\ tctx[t].next \in WriteHeld(t)

\* WritePage(sibling_id) of the underflow loop and the rest of that pass: the
\* borrow ends the loop; after a merge sibling_guard and node_guard are
\* dropped and the loop goes on with the parent
Sibling(t) ==
  LET c == tctx[t]
      b == LoopBody(St, c.ws, c.hdr)
  IN /\ c.pc = "sibling"
     /\ ~WaitsForOwnLatch(t)
     /\ WriteFree(t, RequestOf(c))
     /\ IF b.again THEN LoopOn(t, b.st, Front(c.ws), c.hdr)
        ELSE Put(b.st) /\ tctx' = [tctx EXCEPT ![t] = Idle]
     /\ UNCHANGED <<LEAF_PAGE_TOMB_CNT, live, ops, waitsForOwnLatch, bpmVars, restVars>>

InitConc ==
  /\ pages = <<>>
  /\ root_page_id_ = INVALID_PAGE_ID
  /\ LEAF_PAGE_TOMB_CNT \in ConcTombCounts
  /\ live = [k \in Keys |-> 0]
  /\ hdrUnlatchedWrite = FALSE
  /\ ops = 0
  /\ waitsForOwnLatch = FALSE
  /\ latchedUpward = FALSE
  /\ tctx = [t \in Threads |-> Idle]
  /\ BpmInit
  /\ ArcInit
  /\ DiskInit
  /\ ExecInit

NextConc ==
  \/ \E t \in Threads, op \in {"get", "insert", "remove"}, k \in ConcKeys : BeginOp(t, op, k, 1)
  \/ \E t \in Threads : SearchStep(t)
  \/ \E t \in Threads : Upgrade(t)
  \/ \E t \in Threads : PessStart(t)
  \/ \E t \in Threads : Descend(t)
  \/ \E t \in Threads : Sibling(t)

SpecConc == InitConc /\ [][NextConc]_vars

(***************************************************************************)
(* Several threads that only insert, each call with a key of its own: the  *)
(* i-th Insert call that starts is given key i.                            *)
(***************************************************************************)
\* the RID stored with key k
RidOf(k) == ((k - 1) % MaxVal) + 1

\* the tree after Insert(k, RidOf(k)) for the keys of ks, in turn
RECURSIVE InsertKeys(_, _)
InsertKeys(st, ks) ==
  IF ks = <<>> \/ st.own THEN st
  ELSE InsertKeys(Insert(st, Head(ks), RidOf(Head(ks))).st, Tail(ks))

\* the tree after Remove(k) for the keys of ks, in turn, as far as the calls return
RECURSIVE RemoveKeys(_, _)
RemoveKeys(st, ks) ==
  IF ks = <<>> \/ st.own THEN st ELSE RemoveKeys(Remove(st, Head(ks)).st, Tail(ks))

\* the keys 1..n in ascending and in descending order
Ascending(n) == [i \in 1..n |-> i]
Descending(n) == [i \in 1..n |-> n + 1 - i]

InsertKeysOfThreads == 1..MaxConcOps

BeginInsert(t) == BeginOp(t, "insert", ops + 1, RidOf(ops + 1))

InitIns ==
  /\ pages = <<>>
  /\ root_page_id_ = INVALID_PAGE_ID
  /\ LEAF_PAGE_TOMB_CNT \in ConcTombCounts
  /\ live = [k \in InsertKeysOfThreads |-> 0]
  /\ hdrUnlatchedWrite = FALSE
  /\ ops = 0
  /\ waitsForOwnLatch = FALSE
  /\ latchedUpward = FALSE
  /\ tctx = [t \in Threads |-> Idle]
  /\ BpmInit
  /\ ArcInit
  /\ DiskInit
  /\ ExecInit

NextIns ==
  \/ \E t \in Threads : BeginInsert(t)
  \/ \E t \in Threads : SearchStep(t)
  \/ \E t \in Threads : Upgrade(t)
  \/ \E t \in Threads : PessStart(t)
  \/ \E t \in Threads : Descend(t)

SpecIns == InitIns /\ [][NextIns]_vars

(***************************************************************************)
(* Searches for a key that stays in the tree: the first call inserts       *)
(* KeptKey, the largest key, which no later call removes; afterwards the   *)
(* threads search for KeptKey while they insert and remove the other keys, *)
(* which splits and collapses the root.                                    *)
(***************************************************************************)
KeptKey == leaf_max_size_ + 1

BeginKept(t) == ops = 0 /\ BeginOp(t, "insert", KeptKey, 1)

BeginSearch(t) == live[KeptKey] # 0 /\ BeginOp(t, "get", KeptKey, 1)

BeginUpdate(t, op, k) == live[KeptKey] # 0 /\ k # KeptKey /\ BeginOp(t, op, k, 1)

NextSearch ==
  \/ \E t \in Threads : BeginKept(t)
  \/ \E t \in Threads : BeginSearch(t)
  \/ \E t \in Threads, op \in {"insert", "remove"}, k \in ConcKeys : BeginUpdate(t, op, k)
  \/ \E t \in Threads : SearchStep(t)
  \/ \E t \in Threads : Upgrade(t)
  \/ \E t \in Threads : PessStart(t)
  \/ \E t \in Threads : Descend(t)
  \/ \E t \in Threads : Sibling(t)

SpecSearch == InitConc /\ [][NextSearch]_vars

(***************************************************************************)
(* The threads also iterate: Begin() descends to the leftmost leaf and the *)
(* iterator keeps that leaf's read guard between calls; operator++ moves   *)
(* within the leaf or releases guard_ and then reads the next leaf.  Every *)
(* thread inside a call keeps being scheduled, and the owner of an         *)
(* iterator advances it to the end.                                        *)
(***************************************************************************)
\* the calls of a run, all made on a tree that already has several leaves
MaxLiveOps == 3

\* a tree before any call
NoTree == [pages |-> <<>>, root |-> INVALID_PAGE_ID, unl |-> FALSE, own |-> FALSE, lat |-> {},
           up |-> FALSE, avail |-> -1, nomem |-> FALSE, sib |-> {}]

DeepKeys == 1..MaxDeepKey

\* orders of inserts that give the tree three levels: the first leaves the
\* internal page made by the split of the root with two children, the second
\* with one child
TwoChildOrder == <<1, 2, 5, 3, 6, 4>>

OneChildOrder == <<1, 2, 6, 7, 3, 4, 5>>

\* the tree was filled by one client, with keys going up or going down (two
\* levels) or in the order that leaves an internal page with one child
InitLive ==
  /\ LEAF_PAGE_TOMB_CNT \in ConcTombCounts
  /\ \E ks \in {Ascending(MaxKey), Descending(MaxKey), OneChildOrder} :
       LET st == InsertKeys(NoTree, ks) IN
       /\ pages = st.pages
       /\ root_page_id_ = st.root
       /\ live = [k \in 1..Len(ks) |-> RidOf(k)]
  /\ hdrUnlatchedWrite = FALSE
  /\ ops = 0
  /\ waitsForOwnLatch = FALSE
  /\ latchedUpward = FALSE
  /\ tctx = [t \in Threads |-> Idle]
  /\ BpmInit
  /\ ArcInit
  /\ DiskInit
  /\ ExecInit

\* GetValue, Insert or Remove up to the first page latch
BeginLive(t, op, k) == ops < MaxLiveOps /\ BeginOp(t, op, k, 1)

\* Begin() up to the first page latch
BeginIter(t) == ops < MaxLiveOps /\ BeginOp(t, "iter", 0, 0)

\* operator++ on an iterator that rests on a key, up to its next ReadPage
Advance(t) ==
  LET c == tctx[t] IN
  /\ c.pc = "iter"
  /\ tctx' = [tctx EXCEPT ![t] = IterAt(c, c.next, c.index_ + 1, <<>>)]
  /\ UNCHANGED <<pages, root_page_id_, LEAF_PAGE_TOMB_CNT, live, hdrUnlatchedWrite, ops,
                 waitsForOwnLatch, latchedUpward, bpmVars, restVars>>

\* guard_ = bpm_->ReadPage(next_page_id) and the loop on the new leaf
AdvanceLatch(t) ==
  LET c == tctx[t] IN
  /\ c.pc = "iternext"
  /\ ReadFree(t, RequestOf(c))
  /\ tctx' = [tctx EXCEPT ![t] = IterAt(c, c.next, 0, c.ws)]
  /\ UNCHANGED <<pages, root_page_id_, LEAF_PAGE_TOMB_CNT, live, hdrUnlatchedWrite, ops,
                 waitsForOwnLatch, latchedUpward, bpmVars, restVars>>

\* thread t is on the pessimistic path and the latch it asks for is free:
\* PessStart(t), Descend(t) or Sibling(t) can be taken
CanPess(t) ==
  LET c == tctx[t]
  IN /\ c.pc \in {"pess", "descend", "sibling"}
     /\ ~WaitsForOwnLatch(t)
     /\ WriteFree(t, RequestOf(c))

\* a step of thread t on the pessimistic path: only PessStart(t), Descend(t)
\* and Sibling(t) change tctx[t] there
PessStep(t) == tctx[t].pc \in {"pess", "descend", "sibling"} /\ tctx'[t] # tctx[t]

\* a thread inside a call keeps running: whichever step its position allows
\* is taken if it stays possible.  For the pessimistic path this is
\* WF_vars(PessStart(t) \/ Descend(t) \/ Sibling(t)) with its enabling condition written
\* out as CanPess(t).
Scheduled(t) ==
  /\ WF_vars(SearchStep(t))
  /\ WF_vars(Upgrade(t))
  /\ WF_vars(Advance(t))
  /\ WF_vars(AdvanceLatch(t))
  /\ ([]<>~CanPess(t)) \/ ([]<><<PessStep(t)>>_vars)

NextLive ==
  \/ \E t \in Threads, op \in {"get", "insert", "remove"}, k \in DOMAIN live : BeginLive(t, op, k)
  \/ \E t \in Threads : BeginIter(t)
  \/ \E t \in Threads : SearchStep(t)
  \/ \E t \in Threads : Upgrade(t)
  \/ \E t \in Threads : PessStart(t)
  \/ \E t \in Threads : Descend(t)
  \/ \E t \in Threads : Sibling(t)
  \/ \E t \in Threads : Advance(t)
  \/ \E t \in Threads : AdvanceLatch(t)

SpecLive == InitLive /\ [][NextLive]_vars /\ \A t \in Threads : Scheduled(t)

(***************************************************************************)
(* One client on a tree that has three levels: the inserts that built it   *)
(* split the root's internal page, which leaves internal pages with two    *)
(* children; the removes that follow merge leaves under them and reach     *)
(* parents with one child.                                                 *)
(***************************************************************************)
\* the orders in which the keys were inserted: the first leaves the internal
\* page made by the split with two children, the second with one child
DeepOrders == {TwoChildOrder, OneChildOrder}

InitDeep ==
  /\ LEAF_PAGE_TOMB_CNT \in TombCounts
  /\ \E ks \in DeepOrders :
       LET st == InsertKeys(NoTree, ks) IN
       /\ pages = st.pages
       /\ root_page_id_ = st.root
       /\ live = [k \in DeepKeys |-> IF \E i \in 1..Len(ks) : ks[i] = k THEN RidOf(k) ELSE 0]
  /\ hdrUnlatchedWrite = FALSE
  /\ ops = 0
  /\ waitsForOwnLatch = FALSE
  /\ latchedUpward = FALSE
  /\ tctx = [t \in Threads |-> Idle]
  /\ BpmInit
  /\ ArcInit
  /\ DiskInit
  /\ ExecInit

InsertDeep == \E k \in DeepKeys, v \in Values : ops < MaxDeepOps /\ InsertKey(k, v, MaxDeepPages)

RemoveDeep == \E k \in DeepKeys : ops < MaxDeepOps /\ RemoveKey(k)

NextDeep == InsertDeep \/ RemoveDeep

SpecDeep == InitDeep /\ [][NextDeep]_vars

(***************************************************************************)
(* The replacer driven by its caller.  The caller keeps frames and pages   *)
(* one to one: a frame that is alive is accessed with the page it holds,   *)
(* and a frame that is not alive is given a page no alive frame holds.     *)
(***************************************************************************)
OneToOne(a, frame_id, page_id) ==
  IF IsAlive(a, frame_id) THEN a.alive[frame_id].page = page_id
  ELSE \A f \in ArcFrames : IsAlive(a, f) => a.alive[f].page # page_id

InstallArc(a) ==
  /\ mru_' = a.mru
  /\ mfu_' = a.mfu
  /\ mru_ghost_' = a.mru_ghost
  /\ mfu_ghost_' = a.mfu_ghost
  /\ alive_map_' = a.alive
  /\ ghost_map_' = a.ghost
  /\ mru_target_size_' = a.p
  /\ curr_size_' = a.size
  /\ UNCHANGED <<treeVars, bpmVars, diskVars, execVars>>

RecordAccessCall ==
  \E frame_id \in ArcFrames, page_id \in ArcPages :
    /\ OneToOne(Arc, frame_id, page_id)
    /\ InstallArc(RecordAccess(Arc, frame_id, page_id))

EvictCall == InstallArc(Evict(Arc).a)

SetEvictableCall ==
  \E frame_id \in ArcFrames, set_evictable \in BOOLEAN :
    InstallArc(SetEvictable(Arc, frame_id, set_evictable).a)

RemoveCall == \E frame_id \in ArcFrames : InstallArc(ArcRemove(Arc, frame_id).a)

InitArc ==
  /\ pages = <<>>
  /\ root_page_id_ = INVALID_PAGE_ID
  /\ LEAF_PAGE_TOMB_CNT = 0
  /\ live = [k \in Keys |-> 0]
  /\ hdrUnlatchedWrite = FALSE
  /\ ops = 0
  /\ waitsForOwnLatch = FALSE
  /\ latchedUpward = FALSE
  /\ tctx = [t \in Threads |-> Idle]
  /\ BpmInit
  /\ ArcInit
  /\ DiskInit
  /\ ExecInit

NextArc == RecordAccessCall \/ EvictCall \/ SetEvictableCall \/ RemoveCall

SpecArc == InitArc /\ [][NextArc]_vars

(***************************************************************************)
(* Properties of the tree driven by one client.                            *)
(***************************************************************************)
\* the keys a forward scan from Begin() to End() yields, in order
IteratedKeys == Scan(St, Begin(St), Len(pages) * leaf_max_size_ + 1)

\* the ids of the pages reachable from page id through child pointers
RECURSIVE Subtree(_, _, _)
Subtree(pgs, id, fuel) ==
  IF fuel = 0 \/ pgs[id].leaf THEN {id}
  ELSE {id} \cup UNION {Subtree(pgs, pgs[id].vals[i], fuel - 1) : i \in 1..GetSize(pgs[id])}

TreePages ==
  IF root_page_id_ = INVALID_PAGE_ID THEN {} ELSE Subtree(pages, root_page_id_, Len(pages))

\* min_size as the size bound states it: ceil(max/2), at least 2 for internal pages
BoundMinSize(p) ==
  LET half == (GetMaxSize(p) + 1) \div 2 IN
  IF p.leaf THEN half ELSE IF half < 2 THEN 2 ELSE half

\* C1: get_value(k) returns true with the last value inserted for every key
\* that was inserted and not removed afterwards, and false for every other key.
C1_RoundTrip ==
  \A k \in Keys : GetValue(St, k) = [found |-> live[k] # 0, value |-> live[k]]

\* C2: after any sequence of inserts and removes the forward iterator yields
\* keys in strictly ascending order, no key twice, and no removed key.
C2_IteratorAscending ==
  LET s == IteratedKeys IN
  /\ \A i, j \in 1..Len(s) : i < j => s[i] < s[j]
  /\ \A i \in 1..Len(s) : live[s[i]] # 0

\* C3: after every public operation every non-root page of the tree has
\* min_size <= size <= max_size, and the root has size <= max_size.
C3_SizeBounds ==
  \A id \in TreePages :
    /\ GetSize(pages[id]) <= GetMaxSize(pages[id])
    /\ id # root_page_id_ => GetSize(pages[id]) >= BoundMinSize(pages[id])

\* C4: insert(k, v) of a key that is present and not tombstoned returns false
\* and the value stored for k stays the one inserted first.
C4_DuplicateInsert ==
  \A k \in Keys, v \in Values :
    GetValue(St, k).found =>
      LET r == Insert(St, k, v) IN
      /\ r.ret = FALSE
      /\ GetValue(r.st, k) = GetValue(St, k)

\* C5 as stated: remove(k) of a key that is not live returns false and leaves
\* the tree unchanged.
C5_RemoveNonLiveReturnsFalse ==
  \A k \in Keys :
    live[k] = 0 => LET r == Remove(St, k) IN r.ret = FALSE /\ r.st = St

\* the leaf a search for key ends in holds no slot for key (or the tree is empty)
AbsentFromLeaf(st, key) ==
  LET ctx == FindLeafPage(st, key, "SEARCH", FALSE, FALSE) IN
  ctx.ws = <<>> \/ LeafLookup(st.pages[Back(ctx.ws)], key) = -1

\* C5 amended: remove(k) of a key that is not live returns false and leaves the
\* tree unchanged when the key has no slot in its leaf; when the key is still
\* there as a tombstone the leaf's remove returns true and every get_value
\* result stays what it was.
C5_RemoveNonLive ==
  [](\A k \in DOMAIN live :
       (live[k] = 0 /\ ~waitsForOwnLatch) =>
         LET r == Remove(St, k) IN
         IF AbsentFromLeaf(St, k)
           THEN r.ret = FALSE /\ r.st = St
           ELSE r.ret = TRUE /\ \A j \in DOMAIN live : GetValue(r.st, j) = GetValue(St, j))

\* a removed key is still in its leaf as a tombstone, and another key that was
\* never inserted has no slot
C5_Witness ==
  /\ ~waitsForOwnLatch
  /\ \E k \in Keys : live[k] = 0 /\ ~AbsentFromLeaf(St, k) /\ Remove(St, k).ret
  /\ \E k \in Keys : live[k] = 0 /\ AbsentFromLeaf(St, k) /\ root_page_id_ # INVALID_PAGE_ID

\* the tombstoned keys of a leaf, oldest tombstone first
TombstonedKeys(p) == [j \in 1..Len(p.tombs) |-> At(p.keys, p.tombs[j])]

\* the keys of a leaf that are not tombstoned, in slot order
RECURSIVE LiveKeysFrom(_, _)
LiveKeysFrom(p, index) ==
  IF index >= GetSize(p) THEN <<>>
  ELSE (IF IsTombstone(p, index) THEN <<>> ELSE <<At(p.keys, index)>>) \o LiveKeysFrom(p, index + 1)

\* the keys an iterator yields over a tree whose root is the single leaf p
LeafScan(p) ==
  LET st == [St EXCEPT !.pages = <<p>>, !.root = 1] IN Scan(st, Begin(st), GetSize(p) + 1)

\* a leaf with the given keys and no tombstone
LeafOf(keys) == [LeafInit EXCEPT !.keys = keys, !.vals = [i \in 1..Len(keys) |-> 1]]

\* the result of removing the keys of ks, in turn, from leaf p
RECURSIVE LeafRemoveAll(_, _)
LeafRemoveAll(p, ks) ==
  IF ks = <<>> THEN p ELSE LeafRemoveAll(LeafRemove(p, Head(ks)).page, Tail(ks))

\* C18: in a leaf with tombstone capacity T > 0 that holds T tombstones, removing
\* another live key deletes the earliest tombstoned key physically and makes the
\* removed key the newest tombstone; with T = 2 and keys {10,20,30,40,50},
\* remove(10), remove(20), remove(30) leaves the keys {20,30,40,50} with the
\* tombstones {20,30}, and an iterator yields {40,50}.
C18_TombstoneOverflow ==
  /\ \A id \in 1..Len(pages) :
       LET p == pages[id] IN
       (p.leaf /\ LEAF_PAGE_TOMB_CNT > 0 /\ Len(p.tombs) = LEAF_PAGE_TOMB_CNT) =>
         \A index \in 0..(GetSize(p) - 1) :
           ~IsTombstone(p, index) =>
             LET key == At(p.keys, index)
                 r == LeafRemove(p, key)
             IN /\ r.ok
                /\ r.page.keys = RemoveAt(p.keys, p.tombs[1])
                /\ TombstonedKeys(r.page) = Tail(TombstonedKeys(p)) \o <<key>>
                /\ LiveKeysFrom(r.page, 0) = SelectSeq(LiveKeysFrom(p, 0), LAMBDA k : k # key)
  /\ LEAF_PAGE_TOMB_CNT = 2 =>
       LET q == LeafRemoveAll(LeafOf(<<10, 20, 30, 40, 50>>), <<10, 20, 30>>) IN
       /\ q.keys = <<20, 30, 40, 50>>
       /\ TombstonedKeys(q) = <<20, 30>>
       /\ LeafScan(q) = <<40, 50>>

\* a leaf of the tree holds two tombstones, which is all it may hold, put there
\* by two removes, and a live key whose removal evicts the older one
C18_Witness ==
  /\ LEAF_PAGE_TOMB_CNT = 2
  /\ \E id \in 1..Len(pages) :
       /\ pages[id].leaf
       /\ Len(pages[id].tombs) = LEAF_PAGE_TOMB_CNT
       /\ LiveKeysFrom(pages[id], 0) # <<>>
       /\ pages[id].tombs[1] > pages[id].tombs[2]

\* the size of the leaf a search for key ends in
LeafSizeOf(st, key) ==
  LET ctx == FindLeafPage(st, key, "SEARCH", FALSE, FALSE) IN
  IF ctx.ws = <<>> THEN 0 ELSE GetSize(st.pages[Back(ctx.ws)])

\* key is in the leaf a search for it ends in, as a tombstone
TombstonedInLeaf(st, key) ==
  LET ctx == FindLeafPage(st, key, "SEARCH", FALSE, FALSE) IN
  /\ ctx.ws # <<>>
  /\ LET leaf == st.pages[Back(ctx.ws)] IN
       LeafLookup(leaf, key) # -1 /\ IsTombstone(leaf, LeafLookup(leaf, key))

\* C19: after insert(k, v1), remove(k), insert(k, v2), where the remove left k
\* in its leaf as a tombstone, the second insert returns true, get_value(k)
\* yields v2, and the leaf has the size it had after the first insert.
C19_Resurrect ==
  \A k \in Keys, v1, v2 \in Values :
    LET s1 == Insert(St, k, v1)
        s2 == Remove(s1.st, k)
    IN (s1.ret /\ TombstonedInLeaf(s2.st, k)) =>
         LET s3 == Insert(s2.st, k, v2) IN
         /\ s3.ret
         /\ GetValue(s3.st, k) = [found |-> TRUE, value |-> v2]
         /\ LeafSizeOf(s3.st, k) = LeafSizeOf(s1.st, k)

\* the keys the tree holds: inserted and not removed since
LiveKeys == {k \in Keys : live[k] # 0}

\* the tree after inserting the keys of ks, in turn, into st
RECURSIVE InsertAll(_, _)
InsertAll(st, ks) ==
  IF ks = <<>> THEN st ELSE InsertAll(Insert(st, Head(ks), 1).st, Tail(ks))

\* C20: an iterator started at begin() visits every live key exactly once, as
\* many entries as the tree holds, and then equals end(); after inserting the
\* keys in descending order the iteration yields them in ascending order.
C20_IteratorVisitsAll ==
  /\ Len(IteratedKeys) = Cardinality(LiveKeys)
  /\ {IteratedKeys[i] : i \in 1..Len(IteratedKeys)} = LiveKeys
  /\ pages = <<>> =>
       LET st == InsertAll(St, [i \in 1..MaxKey |-> MaxKey + 1 - i]) IN
       Scan(st, Begin(st), MaxKey + 1) = [i \in 1..MaxKey |-> i]

\* the key an iterator stands on, 0 for End()
KeyUnder(st, it) == IF it.page_id = INVALID_PAGE_ID THEN 0 ELSE At(st.pages[it.page_id].keys, it.index)

\* the smallest live key that is >= key, 0 when there is none
LiveCeiling(key) ==
  LET above == {k \in LiveKeys : k >= key} IN
  IF above = {} THEN 0 ELSE CHOOSE k \in above : \A j \in above : k <= j

\* C21: begin(key) stands on key when key is present and not tombstoned,
\* otherwise on the smallest live key strictly greater than key, moving on to
\* the following leaves when the located leaf has none, and it is the end
\* sentinel when no such key exists.
C21_BeginAtKey ==
  \A key \in Keys : KeyUnder(St, BeginAt(St, key)) = LiveCeiling(key)

\* BPlusTree::IsEmpty
IsEmpty(st) == st.root = INVALID_PAGE_ID

\* C22 as stated: once every inserted key has been removed the tree is empty,
\* IsEmpty() returns true, and a following insert succeeds and makes the tree
\* non-empty again.
C22_EmptyAfterRemovingAll ==
  LiveKeys = {} =>
    /\ IsEmpty(St)
    /\ \A k \in Keys, v \in Values :
         LET r == Insert(St, k, v) IN r.ret /\ ~IsEmpty(r.st)


\* the root of st is an internal page whose children are leaves with these keys
RootOverLeaves(st, leaves) ==
  /\ st.root # INVALID_PAGE_ID
  /\ LET root == st.pages[st.root] IN
       /\ ~root.leaf
       /\ GetSize(root) = Len(leaves)
       /\ \A i \in 1..Len(leaves) :
            /\ st.pages[root.vals[i]].leaf
            /\ st.pages[root.vals[i]].keys = leaves[i]

\* C23: with leaf max_size = 3, inserting 1, 2, 3, 4 in that order into an empty
\* tree gives an internal root with exactly two children whose leaves hold
\* [1,2] and [3,4], and get_value(k) returns the inserted RID for k in 1..4.
C23_LeafSplit ==
  (pages = <<>> /\ leaf_max_size_ = 3) =>
    LET st == InsertKeys(St, <<1, 2, 3, 4>>) IN
    /\ RootOverLeaves(st, << <<1, 2>>, <<3, 4>> >>)
    /\ \A k \in 1..4 : GetValue(st, k) = [found |-> TRUE, value |-> RidOf(k)]

\* C24: in the tree obtained by inserting 1..4 with leaf max_size = 3,
\* remove(1) followed by remove(2) ends, after a borrow from the right sibling,
\* with the two leaves [3] and [4] under the root, and keys 3 and 4 are still
\* retrievable.
C24_LeafRedistribute ==
  (pages = <<>> /\ leaf_max_size_ = 3) =>
    LET st == RemoveKeys(InsertKeys(St, <<1, 2, 3, 4>>), <<1, 2>>) IN
    /\ RootOverLeaves(st, << <<3>>, <<4>> >>)
    /\ \A k \in {3, 4} : GetValue(st, k) = [found |-> TRUE, value |-> RidOf(k)]

\* a tree whose internal root has the given leaves as children, left to right
TreeOfLeaves(leaves) ==
  LET n == Len(leaves)
      leaf(i) == [LeafInit EXCEPT !.keys = leaves[i],
                                  !.vals = [j \in 1..Len(leaves[i]) |-> RidOf(leaves[i][j])],
                                  !.next = IF i < n THEN i + 1 ELSE INVALID_PAGE_ID]
      root == [InternalInit EXCEPT !.keys = [i \in 1..n |-> IF i = 1 THEN 0 ELSE leaves[i][1]],
                                   !.vals = [i \in 1..n |-> i]]
  IN [St EXCEPT !.pages = [i \in 1..(n + 1) |-> IF i <= n THEN leaf(i) ELSE root],
                !.root = n + 1]

\* the root of st is a leaf with these keys
RootLeaf(st, keys) ==
  st.root # INVALID_PAGE_ID /\ st.pages[st.root].leaf /\ st.pages[st.root].keys = keys

\* C25 as stated: from leaves [3] and [4,5] under an internal root (leaf
\* max_size = 3), remove(4) followed by remove(5) merges the leaves into the
\* single leaf [3], which becomes the root, and key 3 is still retrievable.
C25_LeafMergeAlways ==
  LET st == RemoveKeys(TreeOfLeaves(<< <<3>>, <<4, 5>> >>), <<4, 5>>) IN
  /\ RootLeaf(st, <<3>>)
  /\ GetValue(st, 3) = [found |-> TRUE, value |-> RidOf(3)]

\* C25 amended: without tombstones (T = 0) the removes merge the leaves into
\* the single root leaf [3], from the claim's tree and from every tree of two
\* leaves [a] and [b,c] the program reaches; with T = 2 both removes only
\* tombstone and the two leaves stay under the internal root; for every T key 3
\* is retrievable, 4 and 5 are not, and an iteration yields 3 alone.  The
\* claim's tree is a value of its own: it is built and checked where the
\* program's tree is still empty, once for each T.
C25_LeafMerge ==
  /\ pages = <<>> =>
       LET st == RemoveKeys(TreeOfLeaves(<< <<3>>, <<4, 5>> >>), <<4, 5>>) IN
       /\ GetValue(st, 3) = [found |-> TRUE, value |-> RidOf(3)]
       /\ ~GetValue(st, 4).found /\ ~GetValue(st, 5).found
       /\ Scan(st, Begin(st), 4) = <<3>>
       /\ LEAF_PAGE_TOMB_CNT = 0 => RootLeaf(st, <<3>>)
       /\ LEAF_PAGE_TOMB_CNT = 2 => RootOverLeaves(st, << <<3>>, <<4, 5>> >>)
  /\ (LEAF_PAGE_TOMB_CNT = 0 /\ ~waitsForOwnLatch /\ Len(pages) >= 3) =>
       \A a, b, c \in Keys :
         RootOverLeaves(St, << <<a>>, <<b, c>> >>) =>
           RootLeaf(RemoveKeys(St, <<b, c>>), <<a>>)

\* without tombstones the program has reached a tree of two leaves [a] and
\* [b,c] under an internal root
C25_Witness ==
  /\ LEAF_PAGE_TOMB_CNT = 0
  /\ ~waitsForOwnLatch
  /\ \E a, b, c \in Keys :
       /\ RootOverLeaves(St, << <<a>>, <<b, c>> >>)
       /\ RootLeaf(RemoveKeys(St, <<b, c>>), <<a>>)

\* st with a buffer pool that can allocate n more pages
WithPool(st, n) == [st EXCEPT !.avail = n]

\* C26: when the buffer pool cannot allocate a page at some point of an insert
\* (NewPage returns INVALID_PAGE_ID), that insert call returns false.
C26_AllocationFailure ==
  \A k \in Keys, v \in Values, n \in 0..2 :
    LET r == Insert(WithPool(St, n), k, v) IN
    r.st.nomem => r.ret = FALSE

(***************************************************************************)
(* The disk scheduler with its worker thread and the threads that call     *)
(* Schedule.                                                               *)
(***************************************************************************)
InitDisk ==
  /\ pages = <<>>
  /\ root_page_id_ = INVALID_PAGE_ID
  /\ LEAF_PAGE_TOMB_CNT = 0
  /\ live = [k \in Keys |-> 0]
  /\ hdrUnlatchedWrite = FALSE
  /\ ops = 0
  /\ waitsForOwnLatch = FALSE
  /\ latchedUpward = FALSE
  /\ tctx = [t \in Threads |-> Idle]
  /\ BpmInit
  /\ ArcInit
  /\ DiskInit
  /\ ExecInit

NextDisk ==
  \/ \E t \in Threads, requests \in RequestBatches :
       ScheduleCall(t, requests) /\ UNCHANGED <<treeVars, bpmVars, arcVars, execVars>>
  \/ \E t \in Threads : SchedulePut(t) /\ UNCHANGED <<treeVars, bpmVars, arcVars, execVars>>
  \/ Destroy /\ UNCHANGED <<treeVars, bpmVars, arcVars, execVars>>
  \/ WorkerGet /\ UNCHANGED <<treeVars, bpmVars, arcVars, execVars>>
  \/ WorkerExecute /\ UNCHANGED <<treeVars, bpmVars, arcVars, execVars>>
  \/ WorkerSetValue /\ UNCHANGED <<treeVars, bpmVars, arcVars, execVars>>

SpecDisk == InitDisk /\ [][NextDisk]_vars

\* a step of the background thread
WorkerStep ==
  /\ WorkerGet \/ WorkerExecute \/ WorkerSetValue
  /\ UNCHANGED <<treeVars, bpmVars, arcVars, execVars>>

\* the background thread keeps running: Get() returns once the queue holds an
\* element, the DiskManager call and set_value return
SpecDiskFair == InitDisk /\ [][NextDisk]_vars /\ WF_vars(WorkerStep)

(***************************************************************************)
(* One executor over one table: the caller constructs it for a plan, calls *)
(* Init() and then Next() with the same vectors, as the executor tests do. *)
(***************************************************************************)
Tables ==
  UNION {[1..n -> [tuple : 1..MaxTuple, is_deleted_ : BOOLEAN]] : n \in 0..MaxHeap}

\* the plans: filter_predicate_ is 0 for a plan without one, else the value c
\* of the predicate "column = c"
Plans ==
  {[type |-> "Insert", target |-> TooLarge, filter_predicate_ |-> 0, batch_size |-> b] :
      b \in BatchSizes}
  \cup {[type |-> "Delete", target |-> TooLarge, filter_predicate_ |-> 0, batch_size |-> b] :
      b \in BatchSizes}
  \cup {[type |-> "Update", target |-> t, filter_predicate_ |-> 0, batch_size |-> b] :
      t \in Tuples, b \in BatchSizes}
  \cup {[type |-> "SeqScan", target |-> TooLarge, filter_predicate_ |-> c, batch_size |-> b] :
      c \in 0..MaxTuple, b \in BatchSizes}

ExecIdle == <<treeVars, bpmVars, arcVars, diskVars, join, index_join>>

\* InsertExecutor::Init
InsertExecutor_Init ==
  /\ plan_.type = "Insert" /\ ~inited
  /\ \E rows \in ValuesChildren : child_executor_' = Chunk(rows, plan_.batch_size)
  /\ is_finished_' = FALSE
  /\ inited' = TRUE
  /\ before' = table_
  /\ UNCHANGED <<table_, plan_, table_iter_, tuple_batch, returned, emitted, ExecIdle>>

\* DeleteExecutor::Init
DeleteExecutor_Init ==
  /\ plan_.type = "Delete" /\ ~inited
  /\ \E rows \in ScanChildren(table_) : child_executor_' = Chunk(rows, plan_.batch_size)
  /\ is_finished_' = FALSE
  /\ inited' = TRUE
  /\ before' = table_
  /\ UNCHANGED <<table_, plan_, table_iter_, tuple_batch, returned, emitted, ExecIdle>>

\* UpdateExecutor::Init
UpdateExecutor_Init ==
  /\ plan_.type = "Update" /\ ~inited
  /\ \E rows \in ScanChildren(table_) : child_executor_' = Chunk(rows, plan_.batch_size)
  /\ is_finished_' = FALSE
  /\ inited' = TRUE
  /\ before' = table_
  /\ UNCHANGED <<table_, plan_, table_iter_, tuple_batch, returned, emitted, ExecIdle>>

\* SeqScanExecutor::Init
SeqScanExecutor_Init ==
  /\ plan_.type = "SeqScan" /\ ~inited
  /\ table_iter_' = MakeIterator(table_)
  /\ inited' = TRUE
  /\ before' = table_
  /\ UNCHANGED <<table_, plan_, child_executor_, is_finished_, tuple_batch, returned, emitted,
                 ExecIdle>>

\* the tail of the three Next functions: the count is appended to the caller's batch
EmitCount(r) ==
  /\ table_' = r.table
  /\ tuple_batch' = Append(tuple_batch, r.count)
  /\ child_executor_' = <<>>
  /\ is_finished_' = TRUE
  /\ returned' = Append(returned, TRUE)

NoMoreTuples ==
  /\ returned' = Append(returned, FALSE)
  /\ UNCHANGED <<table_, tuple_batch, child_executor_, is_finished_>>

\* InsertExecutor::Next
InsertExecutor_Next ==
  /\ plan_.type = "Insert" /\ inited /\ Len(returned) < MaxNext
  /\ IF is_finished_ THEN NoMoreTuples ELSE EmitCount(InsertAllBatches(table_, 0, child_executor_))
  /\ UNCHANGED <<plan_, inited, table_iter_, emitted, before, ExecIdle>>

\* DeleteExecutor::Next
DeleteExecutor_Next ==
  /\ plan_.type = "Delete" /\ inited /\ Len(returned) < MaxNext
  /\ IF is_finished_ THEN NoMoreTuples ELSE EmitCount(DeleteAllBatches(table_, 0, child_executor_))
  /\ UNCHANGED <<plan_, inited, table_iter_, emitted, before, ExecIdle>>

\* UpdateExecutor::Next
UpdateExecutor_Next ==
  /\ plan_.type = "Update" /\ inited /\ Len(returned) < MaxNext
  /\ IF is_finished_ THEN NoMoreTuples
     ELSE EmitCount(UpdateAllBatches(table_, 0, child_executor_, plan_.target))
  /\ UNCHANGED <<plan_, inited, table_iter_, emitted, before, ExecIdle>>

\* SeqScanExecutor::Next
SeqScanExecutor_Next ==
  /\ plan_.type = "SeqScan" /\ inited /\ Len(returned) < MaxNext
  /\ LET r == ScanBatch(table_, table_iter_, <<>>, <<>>, plan_.batch_size) IN
       /\ table_iter_' = r.it
       /\ tuple_batch' = r.tuples
       /\ emitted' = emitted \o r.rids
       /\ returned' = Append(returned, r.tuples # <<>>)
  /\ UNCHANGED <<table_, plan_, inited, child_executor_, is_finished_, before, ExecIdle>>

InitExec ==
  /\ pages = <<>>
  /\ root_page_id_ = INVALID_PAGE_ID
  /\ LEAF_PAGE_TOMB_CNT = 0
  /\ live = [k \in Keys |-> 0]
  /\ hdrUnlatchedWrite = FALSE
  /\ ops = 0
  /\ waitsForOwnLatch = FALSE
  /\ latchedUpward = FALSE
  /\ tctx = [t \in Threads |-> Idle]
  /\ BpmInit
  /\ ArcInit
  /\ DiskInit
  /\ table_ \in Tables
  /\ plan_ \in Plans
  /\ inited = FALSE
  /\ child_executor_ = <<>>
  /\ is_finished_ = FALSE
  /\ table_iter_ = MakeIterator(<<>>)
  /\ tuple_batch = <<>>
  /\ returned = <<>>
  /\ emitted = <<>>
  /\ before = table_
  /\ join = NoJoin
  /\ index_join = NoIndexJoin

NextExec ==
  \/ InsertExecutor_Init
  \/ DeleteExecutor_Init
  \/ UpdateExecutor_Init
  \/ SeqScanExecutor_Init
  \/ InsertExecutor_Next
  \/ DeleteExecutor_Next
  \/ UpdateExecutor_Next
  \/ SeqScanExecutor_Next

SpecExec == InitExec /\ [][NextExec]_vars

(***************************************************************************)
(* The two join executors run on the same plan and the same children: a    *)
(* NestedLoopJoinExecutor whose predicate is the conjunction of            *)
(* left.col_i = right.col_i for the plan's key columns, and the            *)
(* HashJoinExecutor the optimizer puts in its place.  A row is a sequence  *)
(* of JoinCols values, Null among them.  Each child is a scan of a table.  *)
(***************************************************************************)
JoinValues == Null..MaxJoinVal
JoinRows == [1..JoinCols -> JoinValues]
JoinTables == UNION {[1..n -> JoinRows] : n \in 0..MaxJoinRows}
JoinTypes == {"INNER", "LEFT"}

\* AbstractExecutor::Next of a scan child at cursor pos: [batch, pos, ok]
ChildNext(table, pos, batch_size) ==
  LET last == IF pos + batch_size < Len(table) THEN pos + batch_size ELSE Len(table)
  IN [batch |-> SubSeq(table, pos + 1, last), pos |-> last, ok |-> last > pos]

\* Value::CompareEquals : CmpBool
CompareEquals(a, b) ==
  IF a = Null \/ b = Null THEN "CmpNull" ELSE IF a = b THEN "CmpTrue" ELSE "CmpFalse"

\* LogicExpression AND over the comparisons of the key columns i..n
RECURSIVE EvaluateJoin(_, _, _, _)
EvaluateJoin(left_tuple, right_tuple, i, n) ==
  IF i > n THEN "CmpTrue"
  ELSE LET l == CompareEquals(left_tuple[i], right_tuple[i])
           r == EvaluateJoin(left_tuple, right_tuple, i + 1, n)
       IN IF l = "CmpFalse" \/ r = "CmpFalse" THEN "CmpFalse"
          ELSE IF l = "CmpTrue" /\ r = "CmpTrue" THEN "CmpTrue"
          ELSE "CmpNull"

\* the row of a left tuple padded with NULLs on the right
NullPadded(left_tuple) == left_tuple \o [i \in 1..JoinCols |-> Null]

NestedLoopJoinExecutor_Init(j) ==
  LET first == ChildNext(j.left, 0, BUSTUB_BATCH_SIZE)
  IN [left_pos |-> first.pos, right_pos |-> 0, left_tuples_ |-> first.batch, left_idx_ |-> 0,
      right_tuples_ |-> <<>>, right_idx_ |-> 0, matched_ |-> FALSE, is_right_eof_ |-> FALSE]

\* NestedLoopJoinExecutor::Next from executor state s with the batch filled so far : [s, batch, ret]
RECURSIVE NestedLoopJoinExecutor_Next(_, _, _)
NestedLoopJoinExecutor_Next(j, s, tuples) ==
  IF s.left_idx_ >= Len(s.left_tuples_) THEN [s |-> s, batch |-> tuples, ret |-> tuples # <<>>]
  ELSE
    LET left_tuple == s.left_tuples_[s.left_idx_ + 1] IN
    IF ~s.is_right_eof_ THEN
      IF s.right_idx_ >= Len(s.right_tuples_) THEN
        LET nx == ChildNext(j.right, s.right_pos, j.batch_size) IN
        IF ~nx.ok
          THEN NestedLoopJoinExecutor_Next(j, [s EXCEPT !.right_idx_ = 0, !.right_tuples_ = <<>>,
                                                        !.is_right_eof_ = TRUE], tuples)
          ELSE NestedLoopJoinExecutor_Next(j, [s EXCEPT !.right_idx_ = 0, !.right_tuples_ = nx.batch,
                                                        !.right_pos = nx.pos], tuples)
      ELSE
        LET right_tuple == s.right_tuples_[s.right_idx_ + 1] IN
        IF EvaluateJoin(left_tuple, right_tuple, 1, j.keys) = "CmpTrue" THEN
          LET out == Append(tuples, left_tuple \o right_tuple)
              s1 == [s EXCEPT !.matched_ = TRUE, !.right_idx_ = s.right_idx_ + 1]
          IN IF Len(out) >= j.batch_size THEN [s |-> s1, batch |-> out, ret |-> TRUE]
             ELSE NestedLoopJoinExecutor_Next(j, s1, out)
        ELSE NestedLoopJoinExecutor_Next(j, [s EXCEPT !.right_idx_ = s.right_idx_ + 1], tuples)
    ELSE
      LET out == IF j.join_type = "LEFT" /\ ~s.matched_ THEN Append(tuples, NullPadded(left_tuple)) ELSE tuples
          s1 == [s EXCEPT !.left_idx_ = s.left_idx_ + 1, !.right_pos = 0, !.right_tuples_ = <<>>,
                          !.right_idx_ = 0, !.matched_ = FALSE, !.is_right_eof_ = FALSE]
      IN IF s1.left_idx_ >= Len(s1.left_tuples_) THEN
           LET nx == ChildNext(j.left, s1.left_pos, j.batch_size)
               s2 == [s1 EXCEPT !.left_idx_ = 0, !.left_tuples_ = nx.batch, !.left_pos = nx.pos]
           IN IF ~nx.ok THEN [s |-> s2, batch |-> out, ret |-> out # <<>>]
              ELSE IF Len(out) >= j.batch_size THEN [s |-> s2, batch |-> out, ret |-> TRUE]
              ELSE NestedLoopJoinExecutor_Next(j, s2, out)
         ELSE IF Len(out) >= j.batch_size THEN [s |-> s1, batch |-> out, ret |-> TRUE]
         ELSE NestedLoopJoinExecutor_Next(j, s1, out)

\* HashJoinExecutor::MakeLeftJoinKey and MakeRightJoinKey: the values of the plan's key columns
MakeJoinKey(j, tuple) == SubSeq(tuple, 1, j.keys)

\* HashJoinKey::operator==
HashJoinKey_Equals(a, b) ==
  \A i \in 1..Len(b) :
    CompareEquals(a[i], b[i]) # "CmpTrue" => ~(a[i] # Null \/ b[i] # Null)

\* std::hash<HashJoinKey>: the hashes of the keys that are not NULL, combined
RECURSIVE HashJoinKey_Hash(_)
HashJoinKey_Hash(key) ==
  IF key = <<>> THEN 0
  ELSE LET rest == HashJoinKey_Hash(SubSeq(key, 1, Len(key) - 1))
           last == key[Len(key)]
       IN IF last # Null THEN rest * (MaxJoinVal + 1) + last ELSE rest

\* the tuples of a child that PartitionRelations appends to partition p_idx, in order
PartitionOf(j, table, p_idx) ==
  SelectSeq(table, LAMBDA tuple : HashJoinKey_Hash(MakeJoinKey(j, tuple)) % NUM_PARTITIONS = p_idx)

\* HashJoinExecutor::PartitionRelations : [left_partitions_, right_partitions_]
PartitionRelations(j) ==
  [left_partitions_ |-> [p \in 0..(NUM_PARTITIONS - 1) |-> PartitionOf(j, j.left, p)],
   right_partitions_ |-> [p \in 0..(NUM_PARTITIONS - 1) |-> PartitionOf(j, j.right, p)]]

\* HashJoinExecutor::PrepareNextPartition : [s, ok]
RECURSIVE PrepareNextPartition(_)
PrepareNextPartition(s) ==
  IF s.current_partition_idx_ >= NUM_PARTITIONS THEN [s |-> s, ok |-> FALSE]
  ELSE
    LET s1 == [s EXCEPT !.ht_ = s.right_partitions_[s.current_partition_idx_],
                        !.probe_tuples_ = s.left_partitions_[s.current_partition_idx_],
                        !.current_partition_idx_ = s.current_partition_idx_ + 1]
    IN IF s1.probe_tuples_ # <<>>
         THEN [s |-> [s1 EXCEPT !.probe_idx_ = 0, !.match_idx_ = 0, !.matched_ = FALSE,
                                !.current_matches_ = <<>>],
               ok |-> TRUE]
         ELSE PrepareNextPartition(s1)

HashJoinExecutor_Init(j) ==
  LET parts == PartitionRelations(j)
  IN PrepareNextPartition(
       [left_partitions_ |-> parts.left_partitions_, right_partitions_ |-> parts.right_partitions_,
        current_partition_idx_ |-> 0, ht_ |-> <<>>, probe_tuples_ |-> <<>>, probe_idx_ |-> 0,
        current_matches_ |-> <<>>, match_idx_ |-> 0, matched_ |-> FALSE]).s

\* HashJoinExecutor::Next from executor state s with the batch filled so far : [s, batch, ret]
RECURSIVE HashJoinExecutor_Next(_, _, _)
HashJoinExecutor_Next(j, s, tuples) ==
  IF Len(tuples) >= j.batch_size THEN [s |-> s, batch |-> tuples, ret |-> tuples # <<>>]
  ELSE
    LET prep == IF s.probe_idx_ >= Len(s.probe_tuples_) THEN PrepareNextPartition(s)
                ELSE [s |-> s, ok |-> TRUE]
    IN IF ~prep.ok THEN [s |-> prep.s, batch |-> tuples, ret |-> tuples # <<>>]
       ELSE
         LET s1 == prep.s
             probe_tuple == s1.probe_tuples_[s1.probe_idx_ + 1]
             probe_key == MakeJoinKey(j, probe_tuple)
             found == SelectSeq(s1.ht_, LAMBDA build_tuple :
                                  HashJoinKey_Equals(MakeJoinKey(j, build_tuple), probe_key))
             s2 == IF s1.match_idx_ = 0
                     THEN [s1 EXCEPT !.current_matches_ = found, !.matched_ = (found # <<>>)]
                     ELSE s1
         IN IF s2.match_idx_ < Len(s2.current_matches_)
              THEN HashJoinExecutor_Next(j, [s2 EXCEPT !.match_idx_ = s2.match_idx_ + 1],
                                         Append(tuples, probe_tuple \o s2.current_matches_[s2.match_idx_ + 1]))
              ELSE HashJoinExecutor_Next(j, [s2 EXCEPT !.probe_idx_ = s2.probe_idx_ + 1, !.match_idx_ = 0,
                                                       !.matched_ = FALSE],
                                         IF ~s2.matched_ /\ j.join_type = "LEFT"
                                           THEN Append(tuples, NullPadded(probe_tuple)) ELSE tuples)

JoinIdle == <<treeVars, bpmVars, arcVars, diskVars, table_, plan_, inited, child_executor_, is_finished_,
              table_iter_, tuple_batch, returned, emitted, before, index_join>>

\* the nested loop join is constructed over two children and a plan
InitJoin ==
  /\ pages = <<>>
  /\ root_page_id_ = INVALID_PAGE_ID
  /\ LEAF_PAGE_TOMB_CNT = 0
  /\ live = [k \in Keys |-> 0]
  /\ hdrUnlatchedWrite = FALSE
  /\ ops = 0
  /\ waitsForOwnLatch = FALSE
  /\ latchedUpward = FALSE
  /\ tctx = [t \in Threads |-> Idle]
  /\ BpmInit
  /\ ArcInit
  /\ DiskInit
  /\ table_ = <<>>
  /\ plan_ = NoPlan
  /\ inited = FALSE
  /\ child_executor_ = <<>>
  /\ is_finished_ = FALSE
  /\ table_iter_ = MakeIterator(<<>>)
  /\ tuple_batch = <<>>
  /\ returned = <<>>
  /\ emitted = <<>>
  /\ before = <<>>
  /\ index_join = NoIndexJoin
  /\ \E left \in JoinTables, right \in JoinTables, join_type \in JoinTypes, keys \in 1..JoinCols,
        batch_size \in BatchSizes :
       join = [phase |-> "nlj_init", left |-> left, right |-> right, join_type |-> join_type,
               keys |-> keys, batch_size |-> batch_size, nlj |-> <<>>, hj |-> <<>>,
               nlj_out |-> <<>>, hj_out |-> <<>>]

\* the caller calls Init() on the nested loop join
NestedLoopJoin_Init ==
  /\ join.phase = "nlj_init"
  /\ join' = [join EXCEPT !.phase = "nlj_next", !.nlj = NestedLoopJoinExecutor_Init(join)]
  /\ UNCHANGED JoinIdle

\* the caller calls Next() on the nested loop join and stops when it returns false;
\* it then runs the plan the optimizer made of it, which has a hash join in its place
NestedLoopJoin_Next ==
  /\ join.phase = "nlj_next"
  /\ LET r == NestedLoopJoinExecutor_Next(join, join.nlj, <<>>)
     IN join' = [join EXCEPT !.nlj = r.s, !.nlj_out = join.nlj_out \o r.batch,
                             !.phase = IF r.ret THEN "nlj_next" ELSE "hj_init"]
  /\ UNCHANGED JoinIdle

HashJoin_Init ==
  /\ join.phase = "hj_init"
  /\ join' = [join EXCEPT !.phase = "hj_next", !.hj = HashJoinExecutor_Init(join)]
  /\ UNCHANGED JoinIdle

HashJoin_Next ==
  /\ join.phase = "hj_next"
  /\ LET r == HashJoinExecutor_Next(join, join.hj, <<>>)
     IN join' = [join EXCEPT !.hj = r.s, !.hj_out = join.hj_out \o r.batch,
                             !.phase = IF r.ret THEN "hj_next" ELSE "done"]
  /\ UNCHANGED JoinIdle

NextJoin ==
  \/ NestedLoopJoin_Init
  \/ NestedLoopJoin_Next
  \/ HashJoin_Init
  \/ HashJoin_Next

SpecJoin == InitJoin /\ [][NextJoin]_vars

(***************************************************************************)
(* A NestedIndexJoinExecutor over an outer child, an inner table and the   *)
(* unique index on the inner table's key.  A left tuple is its key value,  *)
(* an inner row is [key, is_deleted_] and its RID is its position in the   *)
(* table heap.  Another transaction's DeleteExecutor deletes inner rows:   *)
(* it marks the row in the heap and then removes the index entry.  No      *)
(* latch is held across the calls Next makes to the index and to the heap, *)
(* so Next is one step per call and the deletes run between the steps.     *)
(***************************************************************************)
InnerKeys == 1..MaxInner
OuterTables == UNION {[1..n -> InnerKeys] : n \in 0..MaxJoinRows}

\* Index::ScanKey on the unique index: the RIDs stored with key
ScanKey(ij, key) ==
  IF \E rid \in ij.index : ij.table_[rid].key = key
    THEN <<CHOOSE rid \in ij.index : ij.table_[rid].key = key>>
    ELSE <<>>

\* the number, in the outer child's order, of the left tuple the executor is at
LeftNumber(s) == s.left_pos - Len(s.left_tuples_) + s.left_idx_ + 1

NestedIndexJoinExecutor_Init(ij) ==
  LET first == ChildNext(ij.left, 0, BUSTUB_BATCH_SIZE)
  IN [left_pos |-> first.pos, left_tuples_ |-> first.batch, left_idx_ |-> 0, result_rids_ |-> <<>>,
      result_idx_ |-> 0, is_new_left_tuple_ |-> TRUE]

\* NestedIndexJoinExecutor::Next from the point `at` of its body, with the batch
\* filled so far, up to its next call of the index or of the table heap, or to
\* its return: [s, batch, at, ret].  at is "while" (the loop condition),
\* "matches" (the if after the probe), "for" (the condition of the loop over
\* result_rids_) or "advance" (the move to the next left tuple) on entry, and
\* "ScanKey", "GetTuple" or "return" in the result
RECURSIVE NestedIndexJoinExecutor_Next(_, _, _, _)
NestedIndexJoinExecutor_Next(ij, s, tuples, at) ==
  CASE at = "while" ->
         IF s.left_idx_ >= Len(s.left_tuples_)
           THEN [s |-> s, batch |-> tuples, at |-> "return", ret |-> tuples # <<>>]
         ELSE IF s.is_new_left_tuple_ THEN [s |-> s, batch |-> tuples, at |-> "ScanKey", ret |-> FALSE]
         ELSE NestedIndexJoinExecutor_Next(ij, s, tuples, "matches")
    [] at = "matches" ->
         IF s.result_idx_ < Len(s.result_rids_)
           THEN [s |-> s, batch |-> tuples, at |-> "GetTuple", ret |-> FALSE]
         ELSE IF ij.join_type = "LEFT" /\ s.result_idx_ = 0
           THEN NestedIndexJoinExecutor_Next(
                  ij, s, Append(tuples, [of |-> LeftNumber(s),
                                         row |-> <<s.left_tuples_[s.left_idx_ + 1], Null>>]),
                  "advance")
         ELSE NestedIndexJoinExecutor_Next(ij, s, tuples, "advance")
    [] at = "for" ->
         IF s.result_idx_ < Len(s.result_rids_)
           THEN [s |-> s, batch |-> tuples, at |-> "GetTuple", ret |-> FALSE]
         ELSE NestedIndexJoinExecutor_Next(ij, s, tuples, "advance")
    [] OTHER ->
         LET s2 == [s EXCEPT !.left_idx_ = s.left_idx_ + 1, !.is_new_left_tuple_ = TRUE,
                             !.result_idx_ = 0, !.result_rids_ = <<>>]
         IN IF s2.left_idx_ >= Len(s2.left_tuples_) THEN
              LET nx == ChildNext(ij.left, s2.left_pos, ij.batch_size)
                  s3 == [s2 EXCEPT !.left_idx_ = 0, !.left_tuples_ = nx.batch, !.left_pos = nx.pos]
              IN IF ~nx.ok THEN [s |-> s3, batch |-> tuples, at |-> "return", ret |-> tuples # <<>>]
                 ELSE IF Len(tuples) >= ij.batch_size
                   THEN [s |-> s3, batch |-> tuples, at |-> "return", ret |-> TRUE]
                 ELSE NestedIndexJoinExecutor_Next(ij, s3, tuples, "while")
            ELSE IF Len(tuples) >= ij.batch_size
              THEN [s |-> s2, batch |-> tuples, at |-> "return", ret |-> TRUE]
            ELSE NestedIndexJoinExecutor_Next(ij, s2, tuples, "while")

\* the inner rows that match key and are not deleted
LiveMatches(ij, key) ==
  {rid \in 1..Len(ij.table_) : ij.table_[rid].key = key /\ ~ij.table_[rid].is_deleted_}

\* the join when Next has come to r: at its return the batch goes to the caller,
\* who stops calling when Next returns false
Arrive(ij, r) ==
  [ij EXCEPT !.s = r.s,
             !.tuples = IF r.at = "return" THEN <<>> ELSE r.batch,
             !.out = IF r.at = "return" THEN ij.out \o r.batch ELSE ij.out,
             !.phase = IF r.at # "return" THEN r.at ELSE IF r.ret THEN "next" ELSE "done"]

IndexJoinIdle == <<treeVars, bpmVars, arcVars, diskVars, table_, plan_, inited, child_executor_, is_finished_,
                   table_iter_, tuple_batch, returned, emitted, before, join>>

\* the inner table holds the keys 1..n, each with its index entry
InitIndexJoin ==
  /\ pages = <<>>
  /\ root_page_id_ = INVALID_PAGE_ID
  /\ LEAF_PAGE_TOMB_CNT = 0
  /\ live = [k \in Keys |-> 0]
  /\ hdrUnlatchedWrite = FALSE
  /\ ops = 0
  /\ waitsForOwnLatch = FALSE
  /\ latchedUpward = FALSE
  /\ tctx = [t \in Threads |-> Idle]
  /\ BpmInit
  /\ ArcInit
  /\ DiskInit
  /\ table_ = <<>>
  /\ plan_ = NoPlan
  /\ inited = FALSE
  /\ child_executor_ = <<>>
  /\ is_finished_ = FALSE
  /\ table_iter_ = MakeIterator(<<>>)
  /\ tuple_batch = <<>>
  /\ returned = <<>>
  /\ emitted = <<>>
  /\ before = <<>>
  /\ join = NoJoin
  /\ \E left \in OuterTables, n \in 0..MaxInner, join_type \in JoinTypes, batch_size \in BatchSizes :
       index_join = [phase |-> "init", left |-> left, join_type |-> join_type, batch_size |-> batch_size,
                     table_ |-> [rid \in 1..n |-> [key |-> rid, is_deleted_ |-> FALSE]],
                     index |-> 1..n, s |-> <<>>, tuples |-> <<>>, out |-> <<>>, probed |-> <<>>]

\* DeleteExecutor::Next of another transaction, its first statement on a row: the
\* row is marked deleted in the table heap.  Nothing orders it with the join
Delete_UpdateTupleMeta ==
  /\ \E rid \in 1..Len(index_join.table_) :
       /\ ~index_join.table_[rid].is_deleted_
       /\ index_join' = [index_join EXCEPT !.table_ =
                           [r \in 1..Len(index_join.table_) |->
                              IF r = rid THEN [key |-> index_join.table_[r].key, is_deleted_ |-> TRUE]
                              ELSE index_join.table_[r]]]
  /\ UNCHANGED IndexJoinIdle

\* DeleteExecutor::Next, its second statement on the row: the index entry is removed
Delete_DeleteEntry ==
  /\ \E rid \in index_join.index :
       /\ index_join.table_[rid].is_deleted_
       /\ index_join' = [index_join EXCEPT !.index = index_join.index \ {rid}]
  /\ UNCHANGED IndexJoinIdle

NestedIndexJoin_Init ==
  /\ index_join.phase = "init"
  /\ index_join' = [index_join EXCEPT !.phase = "next", !.s = NestedIndexJoinExecutor_Init(index_join)]
  /\ UNCHANGED IndexJoinIdle

\* the caller calls Next(): the batch is cleared and the loop runs up to its first
\* call of the index or of the table heap, or to the return
NestedIndexJoin_Next ==
  /\ index_join.phase = "next"
  /\ index_join' = Arrive(index_join,
                          NestedIndexJoinExecutor_Next(index_join, index_join.s, <<>>, "while"))
  /\ UNCHANGED IndexJoinIdle

\* Next probes the index for the left tuple it is at (ScanKey, under the index's
\* own latches only) and runs on; probed keeps the tuple's live matches of that
\* moment
NestedIndexJoin_ScanKey ==
  /\ index_join.phase = "ScanKey"
  /\ LET s == index_join.s
         left_tuple == s.left_tuples_[s.left_idx_ + 1]
         s1 == [s EXCEPT !.result_rids_ = ScanKey(index_join, left_tuple), !.result_idx_ = 0,
                         !.is_new_left_tuple_ = FALSE]
         ij == [index_join EXCEPT !.probed = Append(@, LiveMatches(index_join, left_tuple))]
     IN index_join' = Arrive(ij, NestedIndexJoinExecutor_Next(ij, s1, ij.tuples, "matches"))
  /\ UNCHANGED IndexJoinIdle

\* Next reads the row under result_rids_[result_idx_] from the table heap
\* (GetTuple), skips it if it is marked deleted, joins it otherwise, and runs on
NestedIndexJoin_GetTuple ==
  /\ index_join.phase = "GetTuple"
  /\ LET s == index_join.s
         inner_tuple == index_join.table_[s.result_rids_[s.result_idx_ + 1]]
         s1 == [s EXCEPT !.result_idx_ = s.result_idx_ + 1]
         out == Append(index_join.tuples,
                       [of |-> LeftNumber(s),
                        row |-> <<s.left_tuples_[s.left_idx_ + 1], inner_tuple.key>>])
     IN index_join' =
          Arrive(index_join,
                 IF inner_tuple.is_deleted_
                   THEN NestedIndexJoinExecutor_Next(index_join, s1, index_join.tuples, "for")
                 ELSE IF Len(out) >= index_join.batch_size
                   THEN [s |-> s1, batch |-> out, at |-> "return", ret |-> TRUE]
                 ELSE NestedIndexJoinExecutor_Next(index_join, s1, out, "for"))
  /\ UNCHANGED IndexJoinIdle

NextIndexJoin ==
  \/ Delete_UpdateTupleMeta
  \/ Delete_DeleteEntry
  \/ NestedIndexJoin_Init
  \/ NestedIndexJoin_Next
  \/ NestedIndexJoin_ScanKey
  \/ NestedIndexJoin_GetTuple

SpecIndexJoin == InitIndexJoin /\ [][NextIndexJoin]_vars

(***************************************************************************)
(* Properties of the join executors.                                       *)
(***************************************************************************)
\* how many times row occurs in rows
Occurrences(rows, row) == Cardinality({i \in 1..Len(rows) : rows[i] = row})

\* C39: for any two inputs and any conjunction of left.col = right.col
\* equalities, once both executors have returned false the hash join has
\* produced the same multiset of rows as the nested loop join, for INNER and
\* for LEFT joins, rows with NULL in the join-key columns included.
C39_HashJoinSameRows ==
  join.phase = "done" =>
    \A row \in {join.nlj_out[i] : i \in 1..Len(join.nlj_out)} \cup {join.hj_out[i] : i \in 1..Len(join.hj_out)} :
      Occurrences(join.hj_out, row) = Occurrences(join.nlj_out, row)

\* the rows the index join produced for the left tuple number i, in order
RowsFor(i) ==
  LET picked == SelectSeq(index_join.out, LAMBDA o : o.of = i)
  IN [k \in 1..Len(picked) |-> picked[k].row]

\* C40: in a LEFT nested index join every left tuple yields at least one row:
\* one joined row per live inner tuple matching its key, or exactly one row
\* padded with NULL on the right when it has no live inner match (live when the
\* join probes the index for the tuple).
C40_LeftJoinCoversOuter ==
  (index_join.phase = "done" /\ index_join.join_type = "LEFT") =>
    \A i \in 1..Len(index_join.left) :
      LET rows == RowsFor(i)
          matches == index_join.probed[i]
      IN /\ Len(rows) >= 1
         /\ matches # {} =>
               /\ Len(rows) = Cardinality(matches)
               /\ \A rid \in matches : \E k \in 1..Len(rows) : rows[k] = <<index_join.left[i], index_join.table_[rid].key>>
         /\ matches = {} => rows = <<(<<index_join.left[i], Null>>)>>

(***************************************************************************)
(* Properties of the ARC replacer.                                         *)
(***************************************************************************)
InList(list, x) == \E i \in 1..Len(list) : list[i] = x

\* the frames that are alive (in mru_ or mfu_) and marked evictable
EvictableAlive ==
  {f \in ArcFrames : (InList(mru_, f) \/ InList(mfu_, f)) /\ IsAlive(Arc, f) /\ alive_map_[f].evictable}

\* C11: evict() returns only a frame that is alive (in MRU or MFU) and marked
\* evictable, and it returns none exactly when no alive entry is evictable.
C11_EvictAliveEvictable ==
  LET r == Evict(Arc) IN
  /\ r.ret # -1 => r.ret \in EvictableAlive
  /\ r.ret = -1 <=> EvictableAlive = {}

\* the list evict() prefers holds frames but none evictable, and the other
\* list holds an evictable one
C11_Witness ==
  LET first == IF PreferredSide(Arc) = "MRU" THEN mru_ ELSE mfu_ IN
  /\ first # <<>>
  /\ \A i \in 1..Len(first) : ~alive_map_[first[i]].evictable
  /\ Evict(Arc).ret \in EvictableAlive

\* C12: with capacity N and frame ids 0..N-1, |MRU| + |MFU| <= N and the four
\* lists together hold at most 2N entries.
C12_ListSizes ==
  /\ Len(mru_) + Len(mfu_) <= replacer_size_
  /\ Len(mru_) + Len(mfu_) + Len(mru_ghost_) + Len(mfu_ghost_) <= 2 * replacer_size_

\* the four lists hold 2N entries, both ghost lists are in use, and a frame is
\* free for the next miss
C12_Witness ==
  /\ Len(mru_) + Len(mfu_) + Len(mru_ghost_) + Len(mfu_ghost_) = 2 * replacer_size_
  /\ mfu_ghost_ # <<>>
  /\ mru_ghost_ # <<>>
  /\ \E f \in ArcFrames : ~IsAlive(Arc, f)

\* the page ids of the frames of an alive list
PagesIn(list) == [i \in 1..Len(list) |-> alive_map_[list[i]].page]

NoDuplicates(list) == \A i, j \in 1..Len(list) : i # j => list[i] # list[j]

\* C13: the four lists are pairwise disjoint and duplicate-free: no page id is
\* in more than one of MRU, MFU, MRU_ghost, MFU_ghost or twice in one of them.
C13_ListsDisjoint ==
  /\ NoDuplicates(PagesIn(mru_) \o PagesIn(mfu_) \o mru_ghost_ \o mfu_ghost_)
  /\ NoDuplicates(mru_ \o mfu_)

\* all four lists are in use and a page that was a ghost is alive again
C13_Witness ==
  /\ mru_ # <<>> /\ mfu_ # <<>> /\ mru_ghost_ # <<>> /\ mfu_ghost_ # <<>>
  /\ mru_target_size_ > 0

\* C14: size() equals the number of alive entries marked evictable.
C14_SizeIsEvictableCount == Size(Arc) = Cardinality(EvictableAlive)

\* some alive frames are evictable and some are not
C14_Witness ==
  /\ Cardinality(EvictableAlive) = 1
  /\ Len(mru_) + Len(mfu_) = replacer_size_
  /\ mru_ghost_ # <<>>

\* the positions of the evictable frames of an alive list
EvictablePositions(list) == {i \in 1..Len(list) : alive_map_[list[i]].evictable}

\* the position nearest the tail
Tailmost(S) == CHOOSE i \in S : \A j \in S : j <= i

\* list without the entry at position i
Without(list, i) == [j \in 1..(Len(list) - 1) |-> IF j < i THEN list[j] ELSE list[j + 1]]

\* evict() took the tail-most evictable frame of the list named side and put
\* its page id at the front of that list's ghost list
TookFrom(r, side) ==
  IF side = "MRU"
    THEN LET i == Tailmost(EvictablePositions(mru_)) IN
         /\ r.ret = mru_[i]
         /\ r.a.mru = Without(mru_, i)
         /\ r.a.mru_ghost = <<alive_map_[mru_[i]].page>> \o mru_ghost_
         /\ r.a.mfu = mfu_ /\ r.a.mfu_ghost = mfu_ghost_
    ELSE LET i == Tailmost(EvictablePositions(mfu_)) IN
         /\ r.ret = mfu_[i]
         /\ r.a.mfu = Without(mfu_, i)
         /\ r.a.mfu_ghost = <<alive_map_[mfu_[i]].page>> \o mfu_ghost_
         /\ r.a.mru = mru_ /\ r.a.mru_ghost = mru_ghost_

\* C15: evict() takes its victim from MRU when |MRU| >= p and from MFU
\* otherwise, the first evictable frame from the tail; only when that list has
\* no evictable frame does it scan the other list the same way; the victim's
\* page id goes to the front of the ghost list of the list it was taken from.
C15_EvictPolicy ==
  LET r == Evict(Arc)
      first == IF Len(mru_) >= mru_target_size_ THEN "MRU" ELSE "MFU"
      second == IF first = "MRU" THEN "MFU" ELSE "MRU"
      Positions(side) == EvictablePositions(IF side = "MRU" THEN mru_ ELSE mfu_)
  IN IF Positions(first) # {} THEN TookFrom(r, first)
     ELSE IF Positions(second) # {} THEN TookFrom(r, second)
     ELSE r.ret = -1 /\ r.a = Arc

\* |MRU| is below the target and MFU holds an evictable frame that is not its
\* tail, behind one that is not evictable
C15_Witness ==
  /\ Len(mru_) < mru_target_size_
  /\ EvictablePositions(mfu_) # {}
  /\ Tailmost(EvictablePositions(mfu_)) < Len(mfu_)
  /\ mfu_ghost_ # <<>>


\* C16: an MRU-ghost hit sets p to min(N, p + max(1, |MFU_ghost| / |MRU_ghost|))
\* and an MFU-ghost hit sets it to max(0, p - max(1, |MRU_ghost| / |MFU_ghost|)),
\* with integer division over the ghost sizes at the hit; 0 <= p <= N always.
C16_TargetAdaptation ==
  /\ 0 <= mru_target_size_ /\ mru_target_size_ <= replacer_size_
  /\ \A f \in ArcFrames, pg \in ArcPages :
       (~IsAlive(Arc, f) /\ OneToOne(Arc, f, pg)) =>
         LET np == RecordAccess(Arc, f, pg).p
             up == mru_target_size_ + Max(1, Len(mfu_ghost_) \div Len(mru_ghost_))
         IN
         IF InList(mru_ghost_, pg)
           THEN np = IF up > replacer_size_ THEN replacer_size_ ELSE up
         ELSE IF InList(mfu_ghost_, pg)
           THEN np = Max(0, mru_target_size_ - Max(1, Len(mru_ghost_) \div Len(mfu_ghost_)))
         ELSE np = mru_target_size_

\* a ghost hit is possible on either side with one ghost list at least twice
\* as long as the other, and the target is strictly between 0 and N
C16_Witness ==
  /\ mru_ghost_ # <<>> /\ mfu_ghost_ # <<>>
  /\ \/ Len(mfu_ghost_) >= 2 * Len(mru_ghost_)
     \/ Len(mru_ghost_) >= 2 * Len(mfu_ghost_)
  /\ 0 < mru_target_size_ /\ mru_target_size_ < replacer_size_
  /\ \E f \in ArcFrames : ~IsAlive(Arc, f)

(***************************************************************************)
(* Properties of the disk scheduler.                                       *)
(***************************************************************************)
\* the requests that were put and are not executed yet
Waiting ==
  {request_queue_[i] : i \in 1..Len(request_queue_)} \cup
  (IF worker.pc = "execute" THEN {worker.request} ELSE {})

\* C17: of two requests on the same page, the one scheduled (put) first is
\* executed against the DiskManager and has its promise fulfilled before the
\* later one is executed or fulfilled, whichever threads scheduled them.
C17_SamePageOrder ==
  /\ \A j \in 1..Len(executed) :
       /\ \A i \in 1..(j - 1) :
            executed[i].page = executed[j].page =>
              /\ executed[i].id < executed[j].id
              /\ executed[i].id \in fulfilled
       /\ \A r \in Waiting :
            (r # NoRequest /\ r.page = executed[j].page) => r.id > executed[j].id
  /\ \A id \in fulfilled : \E i \in 1..Len(executed) : executed[i].id = id

\* two threads scheduled requests on one page, the Put calls of one thread's
\* batch interleaved with the other's, and all of them are fulfilled
C17_Witness ==
  \E i, j, k \in 1..Len(executed) :
    /\ i < j /\ j < k
    /\ executed[i].page = executed[j].page /\ executed[j].page = executed[k].page
    /\ executed[i].thread = executed[k].thread
    /\ executed[i].thread # executed[j].thread
    /\ {executed[i].id, executed[j].id, executed[k].id} \subseteq fulfilled

\* request id was executed once and its promise is fulfilled
Served(id) ==
  /\ Cardinality({i \in 1..Len(executed) : executed[i].id = id}) = 1
  /\ id \in fulfilled

\* C38: every request whose Schedule call completed before the destruction
\* began is executed by the worker and has its promise fulfilled exactly once
\* before the destructor returns, and the destructor always returns: the worker
\* exits on std::nullopt and is joined.
C38_DestructorDrains ==
  /\ [](worker.pc = "done" => \A id \in 1..next_request : Served(id))
  /\ ShutDown ~> (worker.pc = "done")

\* the worker has exited after serving requests of both threads
C38_Witness ==
  /\ worker.pc = "done"
  /\ \E i, j \in 1..Len(executed) : executed[i].thread # executed[j].thread

(***************************************************************************)
(* Properties of the latching protocol.                                    *)
(***************************************************************************)
\* the ids of the pages on the path from page id down to the leaf covering key
RECURSIVE PathTo(_, _, _, _)
PathTo(pgs, id, key, fuel) ==
  IF fuel = 0 \/ pgs[id].leaf THEN {id}
  ELSE {id} \cup PathTo(pgs, InternalLookup(pgs[id], key), key, fuel - 1)

\* the pages a traversal for key goes through in the tree as it is now
PathPages(key) ==
  IF root_page_id_ = INVALID_PAGE_ID THEN {} ELSE PathTo(pages, root_page_id_, key, Len(pages))

\* thread t is inside a traversal and asks for the latch of a tree page
Traversing(t) == tctx[t].pc \in {"search", "upgrade", "descend"}

\* C6: during every traversal the latch on an ancestor (the header for the
\* root) is released only after the latch on its child has been acquired, so
\* the page a traversal asks for next is on the path from the root to the leaf
\* covering its key.
C6_NoStaleTraversal ==
  \A t \in Threads :
    Traversing(t) =>
      /\ Held(t) # {}
      /\ tctx[t].next \in PathPages(tctx[t].key)

\* C7: every write to the header page's root_page_id_ (first root, root split,
\* root collapse, tree becoming empty) is made through the header's write guard.
C7_RootWriteUnderHeaderLatch == hdrUnlatchedWrite = FALSE

\* the root was created, split and collapsed back to a leaf, or the tree
\* became empty again
C7_Witness ==
  /\ ~waitsForOwnLatch
  /\ Len(pages) >= 3
  /\ \E id \in 1..Len(pages) : ~pages[id].leaf
  /\ \/ root_page_id_ = INVALID_PAGE_ID
     \/ root_page_id_ # INVALID_PAGE_ID /\ pages[root_page_id_].leaf

\* C8: latching is top-down: no thread asks for the latch of a page (the
\* header included, every tree page being below it) while it holds the latch
\* of one of that page's descendants.  latchedUpward records such a request
\* made inside a step, the second conjunct the request a thread waits on.
C8_TopDownLatching ==
  /\ ~latchedUpward
  /\ \A t \in Threads :
       tctx[t].pc # "idle" =>
         LET r == RequestOf(tctx[t]) IN
         IF r = HEADER_PAGE_ID THEN Held(t) = {}
         ELSE Held(t) \cap Descendants(pages, r, Len(pages)) = {}

(***************************************************************************)
(* Properties of the page guards.                                          *)
(***************************************************************************)
AllocatedPages == {p \in BpmPages : p < next_page_id_}

RECURSIVE SubtreeKeys(_, _, _)
SubtreeKeys(pgs, id, fuel) ==
  IF pgs[id].leaf THEN {At(pgs[id].keys, i) : i \in 0..(GetSize(pgs[id]) - 1)}
  ELSE IF fuel = 0 THEN {}
  ELSE UNION {SubtreeKeys(pgs, pgs[id].vals[i], fuel - 1) : i \in 1..GetSize(pgs[id])}

\* the separator invariant on the internal pages of tree st
SeparatorsOk(st) ==
  \A id \in (IF st.root = INVALID_PAGE_ID THEN {} ELSE Subtree(st.pages, st.root, Len(st.pages))) :
    ~st.pages[id].leaf =>
      \A i \in 1..(GetSize(st.pages[id]) - 1) :
        /\ \A k \in SubtreeKeys(st.pages, At(st.pages[id].vals, i), Len(st.pages)) :
             k >= At(st.pages[id].keys, i)
        /\ \A k \in SubtreeKeys(st.pages, At(st.pages[id].vals, i - 1), Len(st.pages)) :
             k < At(st.pages[id].keys, i)

\* the separator invariant holds while the keys of ins are inserted one by one
\* into st and then the keys of rem are removed one by one
RECURSIVE SeparatorsKept(_, _, _)
SeparatorsKept(st, ins, rem) ==
  /\ SeparatorsOk(st)
  /\ IF st.own THEN TRUE
     ELSE IF ins # <<>> THEN SeparatorsKept(Insert(st, Head(ins), RidOf(Head(ins))).st, Tail(ins), rem)
     ELSE IF rem # <<>> THEN SeparatorsKept(Remove(st, Head(rem)).st, ins, Tail(rem))
     ELSE TRUE

\* C29: after every insert or remove every internal page keeps its separators:
\* for each child index i > 0 every key under children[i] is >= keys[i] and
\* every key under children[i-1] is < keys[i].  Checked in every reachable
\* tree, and along runs of LongRun keys that split and merge internal pages.
C29_SeparatorInvariant ==
  /\ SeparatorsOk(St)
  /\ pages = <<>> =>
       \A ins \in {Ascending(LongRun), Descending(LongRun)} :
         \A rem \in {Ascending(LongRun), Descending(LongRun)} :
           SeparatorsKept(St, ins, rem)

\* the number of levels of tree st
RECURSIVE Height(_, _, _)
Height(pgs, id, fuel) ==
  IF id = INVALID_PAGE_ID THEN 0
  ELSE IF pgs[id].leaf \/ fuel = 0 THEN 1
  ELSE 1 + Height(pgs, At(pgs[id].vals, 0), fuel - 1)

\* the long ascending run has split an internal page (three levels), and
\* removing its keys from the largest down has merged internal pages and
\* collapsed the root again, the separators holding throughout
C29_Witness ==
  /\ pages = <<>> /\ LEAF_PAGE_TOMB_CNT = 0
  /\ LET grown == InsertKeys(St, Ascending(LongRun))
         shrunk == RemoveKeys(grown, [i \in 1..(LongRun - 3) |-> LongRun + 1 - i])
     IN /\ Height(grown.pages, grown.root, Len(grown.pages)) = 3
        /\ Height(shrunk.pages, shrunk.root, Len(shrunk.pages)) = 2
        /\ \A k \in 1..LongRun : GetValue(shrunk, k).found = (k <= 3)
        /\ SeparatorsKept(St, Ascending(LongRun), Descending(LongRun))

\* the tombstone array of leaf p is well formed for a tree with NumTombs = t
TombstonesOk(p, t) ==
  /\ \A i, j \in 1..Len(p.tombs) : i # j => p.tombs[i] # p.tombs[j]
  /\ \A i \in 1..Len(p.tombs) : 0 <= p.tombs[i] /\ p.tombs[i] < GetSize(p)
  /\ Len(p.tombs) <= t

\* the leaves of tree st have well-formed tombstones
LeavesOk(st, t) ==
  \A id \in 1..Len(st.pages) : st.pages[id].leaf => TombstonesOk(st.pages[id], t)

\* the tombstones stay well formed while the keys of ins are inserted one by
\* one into st and then the keys of rem are removed one by one
RECURSIVE TombstonesKept(_, _, _, _)
TombstonesKept(st, ins, rem, t) ==
  /\ LeavesOk(st, t)
  /\ IF st.own THEN TRUE
     ELSE IF ins # <<>>
       THEN TombstonesKept(Insert(st, Head(ins), RidOf(Head(ins))).st, Tail(ins), rem, t)
     ELSE IF rem # <<>> THEN TombstonesKept(Remove(st, Head(rem)).st, ins, Tail(rem), t)
     ELSE TRUE

\* the leaves of st that hold keys
FilledLeaves(st) == {id \in 1..Len(st.pages) : st.pages[id].leaf /\ GetSize(st.pages[id]) > 0}

\* C30: in every leaf, after every leaf operation, the tombstone indices are
\* pairwise distinct, each is below the leaf's size, and there are at most
\* NumTombs of them.  Checked in every reachable tree, and along runs of
\* LongRun keys inserted and then removed.
C30_TombstonesWellFormed ==
  /\ LeavesOk(St, LEAF_PAGE_TOMB_CNT)
  /\ pages = <<>> =>
       \A ins \in {Ascending(LongRun), Descending(LongRun)} :
         \A rem \in {Ascending(LongRun), Descending(LongRun)} :
           TombstonesKept(St, ins, rem, LEAF_PAGE_TOMB_CNT)

\* a leaf holds as many tombstones as it may, and a remove is about to
\* overflow a leaf's tombstones, merge it away and leave tombstones in the tree
C30_Witness ==
  /\ LEAF_PAGE_TOMB_CNT > 0
  /\ \E id \in 1..Len(pages) : pages[id].leaf /\ Len(pages[id].tombs) = LEAF_PAGE_TOMB_CNT
  /\ \E k \in Keys :
       LET st == Remove(St, k).st IN
       /\ Cardinality(FilledLeaves(st)) < Cardinality(FilledLeaves(St))
       /\ \E id \in FilledLeaves(st) : st.pages[id].tombs # <<>>
       /\ LeavesOk(st, LEAF_PAGE_TOMB_CNT)

\* no thread is inside a call
Quiescent == \A t \in Threads : tctx[t].pc = "idle"

\* C31: threads insert pairwise distinct keys concurrently; once every call
\* has returned, get_value finds every key whose insert returned true, with the
\* value inserted, and a full iteration yields each such key exactly once.
C31_NoLostInsert ==
  Quiescent =>
    \A k \in InsertKeysOfThreads :
      live[k] # 0 =>
        /\ GetValue(St, k) = [found |-> TRUE, value |-> live[k]]
        /\ Cardinality({i \in 1..Len(IteratedKeys) : IteratedKeys[i] = k}) = 1

\* C32: a traversal never starts its descent from a page that has ceased to
\* be the root, so a search overlapping a root split or collapse finds every
\* key that is in the tree throughout the search: a search for KeptKey starts
\* at the current root and, arrived at a leaf, finds KeptKey there.
C32_SearchStartsAtRoot ==
  \A t \in Threads :
    (tctx[t].op = "get" /\ tctx[t].pc = "search") =>
      LET page == pages[tctx[t].next]
          index == LeafLookup(page, tctx[t].key)
      IN /\ tctx[t].ws = <<>> => tctx[t].next = root_page_id_
         /\ page.leaf => index # -1 /\ ~IsTombstone(page, index)

\* C33: search, insert, remove and iterator-advance operations running
\* concurrently all eventually complete: a thread inside a call is never
\* blocked forever on a page latch, it gets back to idle.
C33_AllComplete == \A t \in Threads : (tctx[t].pc # "idle") ~> (tctx[t].pc = "idle")

\* C34: an insert that returns false because its key is already present
\* changes nothing in the tree, at every fill level of the leaf up to size =
\* max_size: no page is split, allocated or relinked, and every key get_value
\* found before the call is found with the same value after it.
C34_DuplicateInsertFrame ==
  \A k \in Keys, v \in Values :
    LET r == Insert(St, k, v) IN
    (GetValue(St, k).found /\ r.ret = FALSE) =>
      /\ r.st.pages = pages
      /\ r.st.root = root_page_id_
      /\ \A j \in Keys : GetValue(St, j).found => GetValue(r.st, j) = GetValue(St, j)

\* the keys in leaf p, and those of them that are tombstoned
KeySet(p) == {p.keys[i] : i \in 1..Len(p.keys)}
TombstoneSet(p) == {At(p.keys, p.tombs[i]) : i \in 1..Len(p.tombs)}

\* in leaf q exactly the keys of tombstoned that are still present are tombstoned
Designates(q, tombstoned) == TombstoneSet(q) = tombstoned \cap KeySet(q)

\* the leaves of the tree, and the pairs of a leaf and its right neighbour
TreeLeaves == {id \in TreePages : pages[id].leaf}
Neighbours == {lr \in TreeLeaves \X TreeLeaves : pages[lr[1]].next = lr[2]}

\* C35: across every leaf operation a tombstone keeps designating the same
\* key: a key present after the operation is tombstoned iff it was tombstoned
\* before or was removed by the operation, and was not resurrected by it; the
\* index shifts of inserts, physical deletions, splits, merges and borrows never
\* flip a key between live and tombstoned.  It holds in every tree reached.
C35_TombstonesDesignate ==
  [](
    /\ \A id \in TreeLeaves, k \in Keys :
         LET p == pages[id] IN
         /\ Designates(LeafInsert(p, k, 1).page, TombstoneSet(p) \ {k})
         /\ Designates(LeafRemove(p, k).page, TombstoneSet(p) \cup ({k} \cap KeySet(p)))
    /\ \A id \in TreeLeaves :
         LET p == pages[id]
             h == LeafMoveHalfTo(p, LeafInit)
         IN GetSize(p) = GetMaxSize(p) =>
              Designates(h.src, TombstoneSet(p)) /\ Designates(h.recipient, TombstoneSet(p))
    /\ \A lr \in Neighbours :
         LET l == pages[lr[1]]
             r == pages[lr[2]]
             both == TombstoneSet(l) \cup TombstoneSet(r)
             m == LeafMoveAllTo(r, l)
             f == LeafMoveFirstToEndOf(r, l)
             b == LeafMoveLastToFrontOf(l, r)
         IN IF IsMerge(l, r)
              THEN Designates(m.recipient, both)
              ELSE /\ Designates(f.src, both) /\ Designates(f.recipient, both)
                   /\ Designates(b.src, both) /\ Designates(b.recipient, both))

\* two neighbouring leaves too full to merge, the right one's first key
\* tombstoned: a borrow moves that tombstone across and shifts the others
C35_Witness ==
  \E lr \in Neighbours :
    /\ ~IsMerge(pages[lr[1]], pages[lr[2]])
    /\ IsTombstone(pages[lr[2]], 0)

\* thread t takes the step of the optimistic path that follows WritePage(leaf)
OptimisticStep(t) == tctx[t].pc = "upgrade" /\ tctx'[t] # tctx[t]

\* C36: on the optimistic path the write-latched leaf is modified only when
\* the operation is safe on that leaf alone, an insert only if size <
\* max_size - 1 and a remove only if size > min_size; otherwise the leaf is
\* left untouched and the operation is retried on the pessimistic path.
C36_OptimisticOnlyWhenSafe ==
  [][\A t \in Threads :
       OptimisticStep(t) =>
         LET leaf == pages[tctx[t].next]
             safe == IF tctx[t].op = "insert" THEN GetSize(leaf) < GetMaxSize(leaf) - 1
                                              ELSE GetSize(leaf) > GetMinSize(leaf)
         IN IF safe THEN tctx'[t].pc = "idle"
            ELSE pages' = pages /\ tctx'[t].pc = "pess"]_vars

\* the sibling latches a Remove(k) on the tree as it is asks for
SiblingLatches(k) == Remove(St, k).st.sib

\* C37: during merge or redistribute a sibling's latch is requested only while
\* the common parent's write latch is held, and the latches of the two sibling
\* pages are taken in child-position order, the lower child index first: the
\* page latched second is a child of the parent, at a higher child index than
\* the page the remove already holds.
C37_SiblingLatchOrder ==
  \A k \in DOMAIN live : \A e \in SiblingLatches(k) :
    /\ e.parent_held
    /\ e.idx < e.sibling_idx
    /\ e.sibling_idx < e.size

(***************************************************************************)
(* Properties of the executors.                                            *)
(***************************************************************************)
\* the rows the executor changed, counted on the table heap: the rows a Delete
\* marked deleted, the rows an Insert or an Update stored
RowsAffected ==
  IF plan_.type = "Delete"
  THEN Cardinality({rid \in 1..Len(before) : table_[rid].is_deleted_ /\ ~before[rid].is_deleted_})
  ELSE Len(table_) - Len(before)

\* C27: after Init(), the first Next() of an Insert, Update or Delete executor
\* returns true and leaves one tuple in the batch, the number of rows inserted,
\* updated or deleted, whatever the number of child batches; every later
\* Next() returns false.
C27_ExecutorIntegerOutput ==
  (plan_.type \in {"Insert", "Update", "Delete"} /\ returned # <<>>) =>
    /\ returned[1] = TRUE
    /\ \A i \in 2..Len(returned) : returned[i] = FALSE
    /\ tuple_batch = <<RowsAffected>>

\* a Delete fed two batches of one row has answered 2, and then false twice
C27_Witness ==
  /\ plan_.type = "Delete" /\ plan_.batch_size = 1
  /\ returned = <<TRUE, FALSE, FALSE>>
  /\ tuple_batch = <<2>>
  /\ RowsAffected = 2

\* AbstractExpression::Evaluate of the plan's filter on a tuple
Satisfies(plan, tuple) == plan.filter_predicate_ = 0 \/ tuple = plan.filter_predicate_

\* C28: when SeqScan has run to its end it has emitted, each once, exactly the
\* rows of the table heap that are not marked deleted and that satisfy the
\* plan's filter predicate if it has one.
C28_SeqScanOutput ==
  (plan_.type = "SeqScan" /\ returned # <<>> /\ ~returned[Len(returned)]) =>
    LET expected == {rid \in 1..Len(table_) :
                       ~table_[rid].is_deleted_ /\ Satisfies(plan_, table_[rid].tuple)} IN
    /\ {emitted[i] : i \in 1..Len(emitted)} = expected
    /\ Len(emitted) = Cardinality(expected)

====
